---- MODULE Spec2Model ----
(***************************************************************************)
(* Model of the customer reconciliation pipeline of mapaClientes:          *)
(* sync.js (syncClientes, processarCliente, the sync_state helpers),       *)
(* geocode.js (viaCepGet, nominatimSearch, geocode) and the scheduling in  *)
(* server.js.  One action stands for the code between two awaits.          *)
(***************************************************************************)
EXTENDS Integers, Sequences, FiniteSets, TLC

\* ---------------------------------------------------------------- bounds
MaxEntries == 2     \* longest roster read from the spreadsheet
MaxAge == 7         \* hours after which the age of a pause is no longer counted

\* ------------------------------------------------------ program constants
CooldownHours == 7          \* diffh < 7
ViaCepTries == 3            \* viaCepGet(cepLimpo, tries = 3)
NominatimTries == 4         \* nominatimSearch(query, tries = 4)
MinEnderecoLen == 8         \* endereco.trim().length < 8
NOMINATIM_HOSTS == <<"https://nominatim.openstreetmap.org">>

NULL == "NULL"
NoTime == << >>             \* a DATETIME column holding NULL
HoursAgo(h) == <<h>>        \* a DATETIME column, by the hours elapsed since it
Slots == {1, 2}             \* pending invocations of syncClientes

\* ------------------------------------------------- the roster and the CRM
\* Names of the spreadsheet; readCustomersFromXlsx keeps each name once.
Names == {"a", "a2", "b", "x"}

\* findMatchingPartner on the CRM answer: "a" and "a2" ("Company, Person" and
\* "Company") match the same partner, "x" matches none.
findMatchingPartner(name) ==
  CASE name = "a" -> "101"
    [] name = "a2" -> "101"
    [] name = "b" -> "102"
    [] OTHER -> NULL

\* Column "Itens do pedido" of the entry, already split into its fragments.
EquipmentOf(name) == IF name \in {"a", "a2"} THEN <<"Gerador">> ELSE << >>

\* The CRM record: partner 101 carries an 8-digit zip, partner 102 none.
PartnerZip(id) == IF id = "101" THEN "57000000" ELSE ""
ZipDigits(zip) == IF zip = "" THEN 0 ELSE 8
PartnerEnderecoLen(id) == IF id = "101" THEN 46 ELSE 20

RECURSIVE SeqsNoDup(_)
SeqsNoDup(n) ==
  IF n = 0 THEN {<< >>}
  ELSE LET shorter == SeqsNoDup(n - 1)
       IN shorter \cup {Append(s, x) : s \in {t \in shorter : Len(t) = n - 1},
                                       x \in Names}
Rosters == {s \in SeqsNoDup(MaxEntries) :
              \A j, k \in 1..Len(s) : j # k => s[j] # s[k]}

\* ----------------------------------------------------------------- errors
ErrDb == [name |-> "Error", message |-> "ER_LOCK_DEADLOCK", code |-> "ER_LOCK_DEADLOCK"]
ErrNetName == [name |-> "NominatimNetworkError", message |-> "all hosts failed", code |-> "ETIMEDOUT"]
ErrNetMsg == [name |-> "Error", message |-> "Falha de rede no Nominatim: hosts", code |-> NULL]
Errors == {ErrDb, ErrNetName, ErrNetMsg}

\* msg.includes("Falha de rede no Nominatim")
IncludesFalhaDeRede(msg) == msg \in {"Falha de rede no Nominatim: hosts"}

\* A catch block that takes every error for the fatal one.
IsFatalAlways(err) == TRUE
\* err?.name === "NominatimNetworkError" || msg.includes("Falha de rede no Nominatim")
IsFatal(err) ==
  err.name = "NominatimNetworkError" \/ IncludesFalhaDeRede(err.message)

\* code || msg
PauseReason(err) == IF err.code # NULL THEN err.code ELSE err.message

\* ------------------------------------------------------- sync_state row 1
\* A missing row and a row of NULLs answer every query of the code alike.
EmptySyncState ==
  [last_odoo_id |-> NULL, last_entry_name |-> NULL,
   paused_since |-> NoTime, paused_reason |-> NULL]

\* A cursor write that replaces the whole row.
setSyncCursorReplacesRow(row, id, name) ==
  [EmptySyncState EXCEPT !.last_odoo_id = id, !.last_entry_name = name]
\* INSERT ... ON DUPLICATE KEY UPDATE last_odoo_id = ..., last_entry_name = ...
setSyncCursor(row, id, name) ==
  [row EXCEPT !.last_odoo_id = id, !.last_entry_name = name]

\* A pause write that replaces the whole row.
setPauseDropsCursor(row, reason) ==
  [EmptySyncState EXCEPT !.paused_since = HoursAgo(0), !.paused_reason = reason]
\* INSERT ... ON DUPLICATE KEY UPDATE paused_since = NOW(), paused_reason = ...
setPause(row, reason) ==
  [row EXCEPT !.paused_since = HoursAgo(0), !.paused_reason = reason]

\* A clearPause that writes nothing.
clearPauseKeeps(row) == row
\* UPDATE sync_state SET paused_since = NULL, paused_reason = NULL WHERE id = 1
clearPause(row) ==
  [row EXCEPT !.paused_since = NoTime, !.paused_reason = NULL]

\* TIMESTAMPDIFF(HOUR, paused_since, NOW())
diffh(since) == since[1]

\* A cool-down test that never holds a pass back; one that always does.
StillPausedNever(since) == FALSE
StillPausedAlways(since) == TRUE
\* diffh < 7
StillPaused(since) == diffh(since) < CooldownHours

\* ------------------------------------------------ resume position (cursor)
\* String(s).normalize("NFD").replace(accents, "").trim().toLowerCase()
norm(s) ==
  CASE s = "A" -> "a"
    [] s = " b" -> "b"
    [] s = NULL -> ""
    [] OTHER -> s

\* Array.prototype.findIndex, 0-based, -1 when no element satisfies the test;
\* hit[j] is the test applied to the element s[j]
findIndex(s, hit) ==
  IF \E j \in 1..Len(s) : hit[j]
  THEN (CHOOSE j \in 1..Len(s) : hit[j] /\ \A k \in 1..(j - 1) : ~hit[k]) - 1
  ELSE 0 - 1

\* A start index that is 1 when the cursor names no entry of the list.
StartIdxOneWithoutCursor(list, cursor) ==
  LET hit == [j \in 1..Len(list) |->
                list[j].partner # NULL /\ list[j].partner = cursor.last_odoo_id]
  IN IF findIndex(list, hit) >= 0 THEN findIndex(list, hit) + 1 ELSE 1
\* let startIdx = 0; if (cursor?.last_odoo_id) {...} else if (cursor?.last_entry_name) {...}
StartIdx(list, cursor) ==
  LET ById(x) == x.partner # NULL /\ x.partner = cursor.last_odoo_id
      ByName(x) == norm(x.entry.name) = norm(cursor.last_entry_name)
  IN IF cursor.last_odoo_id # NULL
     THEN LET pos == findIndex(list, [j \in 1..Len(list) |-> ById(list[j])])
          IN IF pos >= 0 THEN pos + 1 ELSE 0
     ELSE IF cursor.last_entry_name # NULL
     THEN LET pos == findIndex(list, [j \in 1..Len(list) |-> ByName(list[j])])
          IN IF pos >= 0 THEN pos + 1 ELSE 0
     ELSE 0

\* const itens = (requested || []).map((entry, idx) => ({ idx, entry, partner }))
Itens(requested) ==
  [j \in 1..Len(requested) |->
     [idx |-> j - 1,
      entry |-> [name |-> requested[j], equipment |-> EquipmentOf(requested[j])],
      partner |-> findMatchingPartner(requested[j])]]

\* ------------------------------------------------------- transport faults
\* What axios rejects with: a code and a message.
ErrTimeout == [code |-> "ETIMEDOUT", message |-> "timeout of 30000ms exceeded"]
ErrRefused == [code |-> "ECONNREFUSED", message |-> "connect ECONNREFUSED"]
\* AxiosError for a status that validateStatus refuses
ErrBadResponse(status) ==
  [code |-> "ERR_BAD_RESPONSE", message |-> "Request failed with status code"]
TransportErrors == {ErrTimeout, ErrRefused}

\* (err?.message || "").toLowerCase().includes(...)
MsgIncludesRetryable(msg) == msg \in {"timeout of 30000ms exceeded"}

\* A classification that takes every error for a retryable one.
isRetryableAlways(e) == TRUE
\* isRetryableNetworkError(err)
isRetryableNetworkError(e) ==
  \/ e.code \in {"ECONNRESET", "ECONNABORTED", "ETIMEDOUT"}
  \/ MsgIncludesRetryable(e.message)

\* validateStatus: (status) => status >= 200 && status < 500
validateStatus(status) == status >= 200 /\ status < 500

\* Answers of the public provider: an HTTP response or a transport fault.
HttpResponses ==
  {[kind |-> "http", status |-> 200, data |-> 1],
   [kind |-> "http", status |-> 200, data |-> 0],
   [kind |-> "http", status |-> 429, data |-> 0],
   [kind |-> "http", status |-> 503, data |-> 0],
   [kind |-> "http", status |-> 404, data |-> 0],
   [kind |-> "http", status |-> 500, data |-> 0]}
NominatimAnswers ==
  HttpResponses \cup {[kind |-> "fault", error |-> e] : e \in TransportErrors}

\* Answers of the postal registry.
ViaCepAnswers ==
  {[kind |-> "found"], [kind |-> "erro"]}
    \cup {[kind |-> "fault", error |-> e] : e \in TransportErrors}

\* ------------------------------------------ geocode(endereco, cep): inputs
\* Free-text addresses: none, a country alone, 7 characters between blanks,
\* 8 characters, a full address.
Enderecos ==
  {NULL, "Peru", " Rua A 1 ", "Rua AB 1", "Rua das Flores 100, Centro, Maceio, Brasil"}
\* String.prototype.trim
trim(s) == IF s = " Rua A 1 " THEN "Rua A 1" ELSE s
\* String.prototype.length
length(s) ==
  CASE s = "Peru" -> 4
    [] s = "Rua A 1" -> 7
    [] s = " Rua A 1 " -> 9
    [] s = "Rua AB 1" -> 8
    [] s = "5700000" -> 7
    [] s = "57000000" -> 8
    [] s = "5700-000" -> 8
    [] s = "57000-000" -> 9
    [] s = "Rua das Flores 100, Centro, Maceio, Brasil" -> 42
    [] OTHER -> 0

\* Postal codes: none, 7 digits, 8 digits, each as the caller may write it.
Ceps == {NULL, "5700-000", "57000-000", "57000000"}
\* cep.replace(/\D/g, "")
cepLimpo(cep) ==
  CASE cep = "5700-000" -> "5700000"
    [] cep = "57000-000" -> "57000000"
    [] OTHER -> cep

\* A test that lets every address through.
TooShortNever(endereco) == FALSE
\* !endereco || endereco.trim().length < 8
TooShort(endereco) == endereco = NULL \/ length(trim(endereco)) < MinEnderecoLen

\* cep && cep.replace(/\D/g, "").length === 8
ValidCep(cep) == cep # NULL /\ length(cepLimpo(cep)) = 8

\* A test that takes the registry's "erro: true" for an address.
ViaCepUsableAlways(r) == r.kind \in {"found", "erro"}
\* via?.data && !via.data.erro
ViaCepUsable(r) == r.kind = "found"

\* A lookup that tries again after every fault.
ViaCepAttemptRetriesAll(r) == IF r.kind = "fault" THEN "continue" ELSE "return"
\* The body of the loop of viaCepGet for one answer: the response is returned,
\* the loop continues with the next attempt, or the error is thrown.
ViaCepAttempt(r) ==
  IF r.kind # "fault" THEN "return"
  ELSE IF isRetryableNetworkError(r.error) THEN "continue"
  ELSE "throw"

\* await sleep(2000 * (i + 1), ...) of viaCepGet, i counted from 0
ViaCepBackoff(i) == 2000 * (i + 1)
\* const backoff = 4000 * (i + 1) of nominatimSearch, i counted from 0
NominatimBackoff(i) == 4000 * (i + 1)

\* parseFloat on the strings the provider sends
NaN == "NaN"
parseFloat(s) ==
  CASE s = "-9.66" -> 0 - 966
    [] s = "-35.73" -> 0 - 3573
    [] OTHER -> NaN

\* A coordinate pair { lat, lng }; null is the empty tuple.
NoCoords == << >>
Place1 == [lat |-> "-9.66", lon |-> "-35.73"]
Loc1 == [lat |-> 0 - 966, lng |-> 0 - 3573]
Loc2 == [lat |-> 0 - 2355, lng |-> 0 - 4663]

\* A reading that takes the last result of the list.
GoogleResultLast(results) ==
  IF Len(results) > 0
  THEN <<results[Len(results)].lat, results[Len(results)].lng>>
  ELSE NoCoords
\* gRes.data.results[0].geometry.location -> { lat: loc.lat, lng: loc.lng }
GoogleResult(results) ==
  IF Len(results) > 0 THEN <<results[1].lat, results[1].lng>> ELSE NoCoords

\* A reading that never reports coordinates.
NominatimResultNever(data) == NoCoords
\* A reading that reports coordinates whatever the list holds.
NominatimResultAlways(data) == <<parseFloat(Place1.lat), parseFloat(Place1.lon)>>
\* res?.data?.length > 0 -> { lat: parseFloat(data[0].lat), lng: parseFloat(data[0].lon) }
NominatimResult(data) ==
  IF Len(data) > 0 THEN <<parseFloat(data[1].lat), parseFloat(data[1].lon)>>
  ELSE NoCoords

\* Answers of the precise keyed provider.
GoogleAnswers ==
  {[kind |-> "http", results |-> <<Loc1, Loc2>>],
   [kind |-> "http", results |-> << >>]}
    \cup {[kind |-> "fault", error |-> e] : e \in TransportErrors}

\* Answers of the public provider, the body of a 200 spelled out.
PlaceAnswers ==
  {[kind |-> "http", status |-> 200, data |-> <<Place1>>],
   [kind |-> "http", status |-> 200, data |-> << >>]}
    \cup {[kind |-> "http", status |-> st, data |-> << >>] : st \in {429, 503, 404, 500}}
    \cup {[kind |-> "fault", error |-> e] : e \in TransportErrors}

\* One call of geocode(endereco, cep) and what it has put on the wire.
\*   pc        the await the call is suspended at, "returned" once it has settled
\*   att, host the loop variables of viaCepGet / nominatimSearch
\*   result    the value the call returned
\*   threw     TRUE when the call rejected instead of returning
\*   last      the request sent last: its destination and the answer to it
\*   prev      the request sent before that one
\*   wait      the back-off slept after that answer, in ms (0: none)
\*   sent      requests sent so far, by destination
\*   reqs      requests sent to the current host in the current search
\*   sawErro   the postal registry has answered erro: true
NoAnswer == [to |-> "-", answer |-> [kind |-> "none"]]
IdleCall ==
  [pc |-> "idle", endereco |-> NULL, cep |-> NULL, att |-> 0, host |-> 1,
   result |-> NoCoords, threw |-> FALSE, last |-> NoAnswer, prev |-> NoAnswer,
   wait |-> 0,
   sent |-> [viacep |-> 0, google |-> 0, via |-> 0, raw |-> 0], reqs |-> 0,
   sawErro |-> FALSE]

\* No function of sync.js is being called on its own.
IdleUnit == [pc |-> "idle"]

\* Nothing has happened yet.
\*   invoked   indices of the roster entries processarCliente was called for
\*   halted    indices of the entries at which a pass halted on a fatal error
NoHist == [invoked |-> {}, halted |-> {}]

\* -------------------------------------------------------------- variables
VARIABLES
  sync_state,             \* row 1 of table sync_state
  clientes,               \* table clientes, a set of rows
  equipamentos,           \* table equipamentos, a set of rows
  roster,                 \* clientes.xlsx as readCustomersFromXlsx returns it
  GOOGLE_KEY,             \* whether process.env.GOOGLE_MAPS_KEY is set
  clearedPauseOnStartup,  \* module-level flag of sync.js
  booted,                 \* server.js has made its start-up call
  lastOutcome,            \* "completed" when the pass that returned last ran to its end and
                          \* no invocation has followed it yet
  pass,                   \* the invocations of syncClientes, by slot
  call,                   \* a call of the exported geocode made on its own
  unit,                   \* a function of sync.js called on its own
  hist                    \* what the passes have done since the first start (history)

dbVars == <<sync_state, clientes, equipamentos>>
\* what no step of a pass writes
envVars == <<roster, GOOGLE_KEY, call, unit, hist>>
procVars == <<clearedPauseOnStartup, booted, lastOutcome>>
vars == <<sync_state, clientes, equipamentos, roster, GOOGLE_KEY,
          clearedPauseOnStartup, booted, lastOutcome, pass, call, unit, hist>>

\* Cursors found at the first start: none, or one whose partner has since left
\* the CRM answer.  (One written for a roster entry is reached from here.)
InitCursors == {<<NULL, NULL>>, <<"999", "a">>}
InitPauses ==
  {<<NoTime, NULL>>, <<HoursAgo(0), "ETIMEDOUT">>}

\* Local state of one invocation.
\*   pc          the await the invocation is suspended at
\*   trigger     what started the pass: "startup" (the first call of the process),
\*               "afterCompleted" (the timer, the pass before ran to its end) or
\*               "timer"; kept until the loop takes its first step, then "-"
\*   pausedAtStart  paused_since of the row when the pass was invoked; kept until the
\*               pass is through the pause check and calls the roster reader
\*   pause       paused_since as getPauseState returned it, while in scope
\*   itens       the matched list
\*   startIdx    where the loop starts
\*   i           loop index, 0-based
\*   geo         result of geocode for entry i
\*   att, host   attempt counter and host index of the running retry loop
\*   part        equipment fragments inserted so far
\*   err         the fatal error being handled
\*   exhausted   nominatimSearch ran out of hosts while resolving entry i
\*   processed   indexes handed to processarCliente in this pass
\*   finished    indexes whose processing has ended in this pass
\*   cursorIdx   index of the latest cursor write of this pass, -1 if none
\*   worked      the pass has called the roster reader, the CRM or the resolver
\*   outcome     how the pass ended
IdlePass ==
  [pc |-> "idle", trigger |-> "-", pausedAtStart |-> NoTime, pause |-> NoTime,
   itens |-> << >>, startIdx |-> 0, i |-> 0, geo |-> NULL, att |-> 0,
   host |-> 1, part |-> 0, err |-> ErrDb, exhausted |-> FALSE, processed |-> {},
   finished |-> {}, cursorIdx |-> 0 - 1, worked |-> FALSE, outcome |-> "none"]

Init ==
  /\ \E c \in InitCursors, ps \in InitPauses :
       sync_state = [last_odoo_id |-> c[1], last_entry_name |-> c[2],
                     paused_since |-> ps[1], paused_reason |-> ps[2]]
  /\ clientes = {}
  /\ equipamentos = {}
  /\ roster \in Rosters
  /\ GOOGLE_KEY \in BOOLEAN
  /\ clearedPauseOnStartup = FALSE
  /\ booted = FALSE
  /\ lastOutcome = "none"
  /\ pass = [p \in Slots |-> IdlePass]
  /\ call = IdleCall
  /\ unit = IdleUnit
  /\ hist = NoHist

Set(p, r) == pass' = [pass EXCEPT ![p] = r]
NoActivePass == \A q \in Slots : pass[q].pc = "idle"

\* ------------------------------------------------------------- scheduling
\* syncClientes() runs up to its first await: the test of the start-up flag.
Invoke(p, atStartup) ==
  /\ pass[p].pc = "idle"
  /\ Set(p, [IdlePass EXCEPT
               !.pc = IF ~clearedPauseOnStartup THEN "clearPauseStartup"
                      ELSE "getPauseState",
               !.trigger = IF atStartup THEN "startup"
                           ELSE IF lastOutcome = "completed" THEN "afterCompleted"
                           ELSE "timer",
               !.pausedAtStart = sync_state.paused_since])
  /\ lastOutcome' = "none"

\* server.js: syncClientes() at start-up
StartupSync ==
  /\ ~booted
  /\ booted' = TRUE
  /\ Invoke(1, TRUE)
  /\ UNCHANGED <<dbVars, envVars, clearedPauseOnStartup>>

\* server.js: setInterval(syncClientes, 30 * 60 * 1000), the earlier pass having returned
TimerSync ==
  /\ booted
  /\ NoActivePass
  /\ Invoke(1, FALSE)
  /\ UNCHANGED <<dbVars, envVars, clearedPauseOnStartup, booted>>

\* The process is stopped and started again; the database stays.
Restart ==
  /\ booted
  /\ booted' = FALSE
  /\ clearedPauseOnStartup' = FALSE
  /\ lastOutcome' = "none"
  /\ pass' = [p \in Slots |-> IdlePass]
  /\ UNCHANGED <<dbVars, envVars>>

Older(since) ==
  IF since # NoTime /\ diffh(since) < MaxAge THEN HoursAgo(diffh(since) + 1) ELSE since

\* One hour passes: NOW() moves away from every stored paused_since.
Tick ==
  /\ sync_state.paused_since # NoTime
  /\ diffh(sync_state.paused_since) < MaxAge
  /\ sync_state' = [sync_state EXCEPT !.paused_since = Older(@)]
  /\ pass' = [p \in Slots |-> [pass[p] EXCEPT !.pause = Older(@)]]
  /\ UNCHANGED <<clientes, equipamentos, envVars, procVars>>

\* The pass returns to the scheduler.
Return(p) ==
  /\ pass[p].pc = "returned"
  /\ lastOutcome' = IF pass[p].outcome = "completed" THEN "completed" ELSE "none"
  /\ Set(p, IdlePass)
  /\ UNCHANGED <<dbVars, envVars, clearedPauseOnStartup, booted>>

\* ------------------------------------------------- syncClientes: the pause
\* First pass of the process: await clearPause(); clearedPauseOnStartup = true
ClearPauseStartup(p) ==
  /\ pass[p].pc = "clearPauseStartup"
  /\ sync_state' = clearPause(sync_state)
  /\ clearedPauseOnStartup' = TRUE
  /\ Set(p, [pass[p] EXCEPT !.pc = "getCustomersFromSheet"])
  /\ UNCHANGED <<clientes, equipamentos, envVars, booted, lastOutcome>>

\* const pause = await getPauseState(); if (pause?.paused_since) ...
GetPauseState(p) ==
  /\ pass[p].pc = "getPauseState"
  /\ Set(p, [pass[p] EXCEPT
               !.pause = sync_state.paused_since,
               !.pc = IF sync_state.paused_since # NoTime THEN "diffQuery"
                      ELSE "getCustomersFromSheet"])
  /\ UNCHANGED <<dbVars, envVars, procVars>>

\* SELECT TIMESTAMPDIFF(HOUR, ?, NOW()); if (diffh < 7) return
DiffQuery(p) ==
  /\ pass[p].pc = "diffQuery"
  /\ IF StillPaused(pass[p].pause)
     THEN Set(p, [pass[p] EXCEPT !.pc = "returned", !.outcome = "skipped"])
     ELSE Set(p, [pass[p] EXCEPT !.pc = "clearPauseElapsed"])
  /\ UNCHANGED <<dbVars, envVars, procVars>>

\* 7 hours or more: await clearPause()
ClearPauseElapsed(p) ==
  /\ pass[p].pc = "clearPauseElapsed"
  /\ sync_state' = clearPause(sync_state)
  /\ Set(p, [pass[p] EXCEPT !.pause = NoTime, !.pc = "getCustomersFromSheet"])
  /\ UNCHANGED <<clientes, equipamentos, envVars, procVars>>

\* ------------------------------------- syncClientes: roster, list, cursor
\* await getCustomersFromSheet(filePath, ...); const itens = requested.map(...)
GetCustomersFromSheet(p) ==
  /\ pass[p].pc = "getCustomersFromSheet"
  /\ Set(p, [pass[p] EXCEPT
               !.itens = Itens(roster),
               !.pausedAtStart = NoTime,
               !.worked = TRUE,
               !.pc = "getSyncCursor"])
  /\ UNCHANGED <<dbVars, envVars, procVars>>

\* The CRM login, a CRM search or the spreadsheet read throws: catch (err) of
\* syncClientes logs "ERRO PRINCIPAL" and the pass ends.
GetCustomersFromSheetThrows(p) ==
  /\ pass[p].pc = "getCustomersFromSheet"
  /\ Set(p, [pass[p] EXCEPT
               !.pausedAtStart = NoTime,
               !.worked = TRUE,
               !.pc = "returned",
               !.outcome = "error"])
  /\ UNCHANGED <<dbVars, envVars, procVars>>

\* const cursor = await getSyncCursor(); let startIdx = ...
GetSyncCursor(p) ==
  /\ pass[p].pc = "getSyncCursor"
  /\ Set(p, [pass[p] EXCEPT
               !.startIdx = StartIdx(pass[p].itens, sync_state),
               !.i = StartIdx(pass[p].itens, sync_state),
               !.pc = "loop"])
  /\ UNCHANGED <<dbVars, envVars, procVars>>

\* ---------------------------------------------------------- the entry loop
Item(p) == pass[p].itens[pass[p].i + 1]

\* A loop that steps over every second entry.
NextIndexSkips(n) == n + 2
\* i++
NextIndex(n) == n + 1

\* geocode() up to the choice of its first request:
\*   cep of 8 digits -> viaCepGet; else the length test of the fallback
GeocodeEntryPc(id) ==
  IF ZipDigits(PartnerZip(id)) = 8 THEN "viaCepGet"
  ELSE IF PartnerEnderecoLen(id) < MinEnderecoLen THEN "findMatches"
  ELSE "nominatimRaw"

\* for (let i = startIdx; i < itens.length; i++): the loop ended
LoopEnd(p) ==
  /\ pass[p].pc = "loop"
  /\ pass[p].i >= Len(pass[p].itens)
  /\ Set(p, [pass[p] EXCEPT !.trigger = "-", !.pc = "returned", !.outcome = "completed"])
  /\ UNCHANGED <<dbVars, envVars, procVars>>

\* A loop that takes every entry for a matched one.
NotFoundNever(item) == FALSE
\* if (!partner)
NotFound(item) == item.partner = NULL

\* if (!partner) { console.warn(...); continue; }
LoopSkip(p) ==
  /\ pass[p].pc = "loop"
  /\ pass[p].i < Len(pass[p].itens)
  /\ NotFound(Item(p))
  /\ Set(p, [pass[p] EXCEPT !.trigger = "-", !.i = NextIndex(@)])
  /\ UNCHANGED <<dbVars, envVars, procVars>>

\* processarCliente(partner, entry) up to the first request of geocode
LoopProcessPass(p) ==
  /\ pass[p].pc = "loop"
  /\ pass[p].i < Len(pass[p].itens)
  /\ ~NotFound(Item(p))
  /\ Set(p, [pass[p] EXCEPT
               !.trigger = "-",
               !.processed = @ \cup {pass[p].i},
               !.geo = NULL,
               !.exhausted = FALSE,
               !.att = 0,
               !.host = 1,
               !.part = 0,
               !.pc = GeocodeEntryPc(Item(p).partner)])
LoopProcess(p) == LoopProcessPass(p) /\ UNCHANGED <<dbVars, envVars, procVars>>

\* ---------------------------------------------------------------- geocode
\* for (let i = 0; i < tries; i++): a loop that makes one attempt more
LastTryOneLate(i, tries) == i >= tries
\* for (let i = 0; i < tries; i++): attempt i is the last one of the loop
LastTry(i, tries) == i + 1 >= tries

\* step 4 of geocode: if (!endereco || endereco.trim().length < 8) return null
FallbackPc(id) ==
  IF PartnerEnderecoLen(id) < MinEnderecoLen THEN "findMatches" ELSE "nominatimRaw"

\* One request of viaCepGet and what geocode does with its outcome.
ViaCepGet(p) ==
  /\ pass[p].pc = "viaCepGet"
  /\ \E r \in ViaCepAnswers :
       Set(p,
         CASE r.kind = "found" ->
                [pass[p] EXCEPT !.att = 0,
                                !.pc = IF GOOGLE_KEY THEN "google" ELSE "nominatimVia"]
           [] r.kind = "erro" ->
                [pass[p] EXCEPT !.att = 0, !.pc = FallbackPc(Item(p).partner)]
           [] OTHER ->
                IF isRetryableNetworkError(r.error)
                THEN IF ~LastTry(pass[p].att, ViaCepTries)
                     THEN [pass[p] EXCEPT !.att = @ + 1]
                     \* the loop ends, viaCepGet returns null
                     ELSE [pass[p] EXCEPT !.att = 0, !.pc = FallbackPc(Item(p).partner)]
                \* throw err: caught by geocode, which returns null
                ELSE [pass[p] EXCEPT !.att = 0, !.pc = "findMatches"])
  /\ UNCHANGED <<dbVars, envVars, procVars>>

\* if (GOOGLE_KEY) { const gRes = await axios.get(gUrl) ... }
Google(p) ==
  /\ pass[p].pc = "google"
  /\ \E r \in {"results", "empty", "fault"} :
       Set(p,
         CASE r = "results" -> [pass[p] EXCEPT !.geo = "coords", !.pc = "findMatches"]
           [] r = "empty" -> [pass[p] EXCEPT !.pc = "nominatimVia"]
           [] OTHER -> [pass[p] EXCEPT !.pc = "findMatches"])
  /\ UNCHANGED <<dbVars, envVars, procVars>>

\* A loop body that leaves the host on every fault.
NominatimAttemptGivesUp(r) ==
  IF r.kind = "http" /\ validateStatus(r.status)
  THEN IF r.status = 200 THEN "return"
       ELSE IF r.status \in {429, 503} THEN "continue"
       ELSE "break"
  ELSE "break"
\* The body of the inner loop of nominatimSearch for one answer: the loop
\* returns the response, continues with the next attempt, or leaves the host.
NominatimAttempt(r) ==
  IF r.kind = "http" /\ validateStatus(r.status)
  THEN IF r.status = 200 THEN "return"
       ELSE IF r.status \in {429, 503} THEN "continue"
       ELSE "break"
  ELSE LET e == IF r.kind = "fault" THEN r.error ELSE ErrBadResponse(r.status)
       IN IF isRetryableNetworkError(e) THEN "continue" ELSE "break"

\* One request of nominatimSearch and what geocode does with its outcome.
NominatimSearch(p) ==
  /\ pass[p].pc \in {"nominatimVia", "nominatimRaw"}
  /\ \E r \in NominatimAnswers :
       LET step == NominatimAttempt(r)
           lastTry == LastTry(pass[p].att, NominatimTries)
           lastHost == pass[p].host >= Len(NOMINATIM_HOSTS)
           \* where geocode goes when the search brought no coordinates
           after == IF pass[p].pc = "nominatimVia" THEN FallbackPc(Item(p).partner)
                    ELSE "findMatches"
       IN Set(p,
            CASE step = "return" /\ r.data > 0 ->
                   [pass[p] EXCEPT !.geo = "coords", !.att = 0, !.host = 1,
                                   !.pc = "findMatches"]
              [] step = "return" /\ r.data = 0 ->
                   [pass[p] EXCEPT !.att = 0, !.host = 1, !.pc = after]
              [] step = "continue" /\ ~lastTry ->
                   [pass[p] EXCEPT !.att = @ + 1]
              [] step # "return" /\ (step = "break" \/ lastTry) /\ ~lastHost ->
                   [pass[p] EXCEPT !.att = 0, !.host = @ + 1]
              \* "Todos os hosts Nominatim falharam": return null
              [] OTHER ->
                   [pass[p] EXCEPT !.exhausted = TRUE, !.att = 0, !.host = 1,
                                   !.pc = after])
  /\ UNCHANGED <<dbVars, envVars, procVars>>

\* ------------------------------------------- processarCliente: the storage
\* const matches = await findMatches()
FindMatches(p) ==
  /\ pass[p].pc = "findMatches"
  /\ Set(p, [pass[p] EXCEPT !.pc = "upsert"])
  /\ UNCHANGED <<dbVars, envVars, procVars>>

\* INSERT INTO clientes (...) VALUES (...) ON DUPLICATE KEY UPDATE ...
UpsertCliente(table, id, lat) ==
  {r \in table : r.id_odoo # id} \cup {[id_odoo |-> id, latitude |-> lat]}

Upsert(p) ==
  /\ pass[p].pc = "upsert"
  /\ clientes' = UpsertCliente(clientes, Item(p).partner, pass[p].geo)
  /\ Set(p, [pass[p] EXCEPT
               !.pc = IF Item(p).entry.equipment # << >> THEN "equipSelect"
                      ELSE "setSyncCursor"])
  /\ UNCHANGED <<sync_state, equipamentos, envVars, procVars>>

\* CREATE TABLE IF NOT EXISTS equipamentos; SELECT id FROM clientes WHERE id_odoo = ?
EquipSelect(p) ==
  /\ pass[p].pc = "equipSelect"
  /\ Set(p, [pass[p] EXCEPT
               !.pc = IF \E r \in clientes : r.id_odoo = Item(p).partner
                      THEN "equipDelete" ELSE "setSyncCursor"])
  /\ UNCHANGED <<dbVars, envVars, procVars>>

\* DELETE FROM equipamentos WHERE cliente_id = ?
EquipDelete(p) ==
  /\ pass[p].pc = "equipDelete"
  /\ equipamentos' = {e \in equipamentos : e.cliente_id # Item(p).partner}
  /\ Set(p, [pass[p] EXCEPT !.part = 0,
                            !.pc = "equipInsert"])
  /\ UNCHANGED <<sync_state, clientes, envVars, procVars>>

\* for (const part of parts) { try { INSERT INTO equipamentos ... } catch {} }
EquipInsert(p) ==
  /\ pass[p].pc = "equipInsert"
  /\ LET parts == Item(p).entry.equipment
         row == [cliente_id |-> Item(p).partner, nome |-> parts[pass[p].part + 1]]
     IN /\ \E inserted \in BOOLEAN :
             equipamentos' = IF inserted THEN equipamentos \cup {row} ELSE equipamentos
        /\ Set(p, [pass[p] EXCEPT
                     !.part = @ + 1,
                     !.pc = IF pass[p].part + 1 >= Len(parts) THEN "setSyncCursor"
                            ELSE "equipInsert"])
  /\ UNCHANGED <<sync_state, clientes, envVars, procVars>>

\* ----------------------------------------- the end of an entry, the errors
\* The awaits of processarCliente and of the loop body that can reject.
StoragePcs == {"findMatches", "upsert", "equipSelect", "equipDelete"}

\* if (ok) await setSyncCursor({ last_odoo_id: partner.id, last_entry_name: reqName })
SetSyncCursor(p) ==
  /\ pass[p].pc = "setSyncCursor"
  /\ sync_state' = setSyncCursor(sync_state, Item(p).partner, Item(p).entry.name)
  /\ Set(p, [pass[p] EXCEPT
               !.exhausted = FALSE,
               !.cursorIdx = pass[p].i,
               !.finished = @ \cup {pass[p].i},
               !.i = NextIndex(@),
               !.pc = "loop"])
  /\ UNCHANGED <<clientes, equipamentos, envVars, procVars>>

\* What the two catch blocks do with an error thrown while entry i is processed:
\* processarCliente rethrows a fatal one and answers false to any other,
\* syncClientes pauses on a fatal one and logs any other.
Caught(p, e) ==
  IF IsFatal(e)
  THEN [pass[p] EXCEPT !.err = e, !.pc = "setPause"]
  ELSE [pass[p] EXCEPT !.finished = @ \cup {pass[p].i},
                       !.exhausted = FALSE,
                       !.i = NextIndex(@),
                       !.pc = "loop"]

\* A query of processarCliente rejects.
ProcessarClienteThrows(p) ==
  /\ pass[p].pc \in StoragePcs
  /\ \E e \in Errors : Set(p, Caught(p, e))
  /\ UNCHANGED <<dbVars, envVars, procVars>>

\* The cursor write rejects: the row stays as it was.
SetSyncCursorThrows(p) ==
  /\ pass[p].pc = "setSyncCursor"
  /\ \E e \in Errors : Set(p, Caught(p, e))
  /\ UNCHANGED <<dbVars, envVars, procVars>>

\* await setPause(code || msg); interrupted = true; break
SetPausePass(p) ==
  /\ pass[p].pc = "setPause"
  /\ sync_state' = setPause(sync_state, PauseReason(pass[p].err))
  /\ Set(p, [pass[p] EXCEPT
               !.finished = @ \cup {pass[p].i},
               !.pc = "returned",
               !.outcome = "interrupted"])
SetPause(p) == SetPausePass(p) /\ UNCHANGED <<clientes, equipamentos, envVars, procVars>>

\* ------------------------------------------------------- the specification
Step(p) ==
  \/ ClearPauseStartup(p)
  \/ GetPauseState(p)
  \/ DiffQuery(p)
  \/ ClearPauseElapsed(p)
  \/ GetCustomersFromSheet(p)
  \/ GetCustomersFromSheetThrows(p)
  \/ GetSyncCursor(p)
  \/ LoopEnd(p)
  \/ LoopSkip(p)
  \/ LoopProcess(p)
  \/ ViaCepGet(p)
  \/ Google(p)
  \/ NominatimSearch(p)
  \/ FindMatches(p)
  \/ Upsert(p)
  \/ EquipSelect(p)
  \/ EquipDelete(p)
  \/ EquipInsert(p)
  \/ SetSyncCursor(p)
  \/ ProcessarClienteThrows(p)
  \/ SetSyncCursorThrows(p)
  \/ SetPause(p)
  \/ Return(p)

Next ==
  \/ StartupSync
  \/ TimerSync
  \/ Restart
  \/ Tick
  \/ \E p \in Slots : Step(p)

Spec == Init /\ [][Next]_vars

\* ===================================================================== claims
N(p) == Len(pass[p].itens)
Matched(p) == {j \in 0..(N(p) - 1) : pass[p].itens[j + 1].partner # NULL}
Paused == sync_state.paused_since # NoTime
\* The step is one of pass p itself, not a restart of the process.
OwnStep(p) == pass'[p].pc # pass[p].pc /\ booted'

\* C1: when nominatimSearch has failed on every attempt on every host while
\* geocode resolves an entry, the pass does not go on with that entry: it is
\* handling the fatal condition, or it has halted with the pause recorded.
C1_ExhaustionHaltsPass ==
  \A p \in Slots :
    pass[p].exhausted =>
      \/ pass[p].pc = "setPause"
      \/ pass[p].pc = "returned" /\ pass[p].outcome = "interrupted" /\ Paused

\* C2: a pass on which entry i raised the fatal condition records the pause
\* with the error detail (code || message) without touching the cursor
\* columns, returns without starting any entry after i, and the cursor is
\* that of the last entry of this pass whose processing succeeded before i.
C2_Detail(e) == IF e.code # NULL THEN e.code ELSE e.message
C3_Refers(row, item) ==
  /\ row.last_odoo_id # NULL
  /\ item.partner = row.last_odoo_id
  /\ norm(item.entry.name) = norm(row.last_entry_name)

\* C3: a pass that found the cursor referring to the entry at index k starts
\* after k, so it processes only indexes k+1..n-1; with no cursor, or a cursor
\* referring to no entry of the list, it starts at index 0.
C3_ResumeAfterCursor ==
  \A p \in Slots :
    (pass[p].pc = "loop" /\ pass[p].trigger # "-") =>
      LET refs == {k \in 0..(N(p) - 1) : C3_Refers(sync_state, pass[p].itens[k + 1])}
      IN /\ \A k \in refs : pass[p].i >= k + 1
         /\ refs = {} => pass[p].i = 0

\* C4: the first pass of a process lifetime starts at entry index 0.
C4_FirstPassStartsAtZero ==
  \A p \in Slots :
    (pass[p].pc = "loop" /\ pass[p].trigger = "startup") => pass[p].i = 0

\* C5: a pass that follows a pass which ran to completion starts at index 0.
C5_AfterCompletedStartsAtZero ==
  \A p \in Slots :
    (pass[p].pc = "loop" /\ pass[p].trigger = "afterCompleted") => pass[p].i = 0

\* C6: the first pass of a process lifetime never reads the pause or its age:
\* its first operation clears the pause columns, whatever they hold, leaves the
\* cursor columns alone, and the pass goes on to read the roster.
C6_FirstPassClearsPause ==
  [][\A p \in Slots :
       /\ (pass[p].pc = "idle" /\ pass'[p].trigger = "startup")
            => pass'[p].pc = "clearPauseStartup"
       /\ (pass[p].pc = "clearPauseStartup" /\ OwnStep(p))
            => /\ sync_state'.paused_since = NoTime
               /\ sync_state'.paused_reason = NULL
               /\ sync_state'.last_odoo_id = sync_state.last_odoo_id
               /\ sync_state'.last_entry_name = sync_state.last_entry_name
               /\ pass'[p].pc = "getCustomersFromSheet"
               /\ pass'[p].outcome = "none"
  ]_vars

\* C6 witness: a start-up pass that found a pause younger than the cool-down
\* is about to read the roster, the pause gone.
C6_Witness ==
  \E p \in Slots :
    /\ pass[p].trigger = "startup"
    /\ pass[p].pc = "getCustomersFromSheet"
    /\ pass[p].pausedAtStart # NoTime
    /\ diffh(pass[p].pausedAtStart) < CooldownHours
    /\ ~Paused

\* C7: a pass that is not the first of its process and finds a pause younger
\* than 7 hours returns at once: it has read no roster, called neither the CRM
\* nor the resolver, and no step of it writes a table.
C7_PausedPassDoesNothing ==
  [][\A p \in Slots :
       /\ (pass[p].pc = "getPauseState" /\ OwnStep(p))
            => /\ UNCHANGED dbVars
               /\ ~pass'[p].worked
               /\ sync_state.paused_since # NoTime => pass'[p].pc = "diffQuery"
       /\ (pass[p].pc = "diffQuery" /\ diffh(pass[p].pause) < CooldownHours /\ OwnStep(p))
            => /\ UNCHANGED dbVars
               /\ pass'[p].pc = "returned"
               /\ pass'[p].outcome = "skipped"
               /\ ~pass'[p].worked
               /\ pass'[p].processed = {}
       /\ (pass[p].pc = "returned" /\ pass[p].outcome = "skipped" /\ OwnStep(p))
            => /\ UNCHANGED dbVars
               /\ pass'[p].pc = "idle"
  ]_vars

\* C7 witness: a timer pass has returned on a pause younger than 7 hours.
C7_Witness ==
  \E p \in Slots :
    /\ pass[p].pc = "returned"
    /\ pass[p].outcome = "skipped"
    /\ pass[p].trigger # "startup"
    /\ ~pass[p].worked
    /\ Paused
    /\ diffh(sync_state.paused_since) < CooldownHours

\* The error test of the catch block of the loop, as the specification words it.
C9_FatalCondition(e) ==
  e.name = "NominatimNetworkError" \/ IncludesFalhaDeRede(e.message)

C10_Busy(p) == pass[p].pc \notin
  {"idle", "clearPauseStartup", "getPauseState", "diffQuery", "clearPauseElapsed",
   "getCustomersFromSheet", "getSyncCursor", "loop", "returned"}

\* C10: at every moment of a pass at most one entry is being processed, it is
\* entry i, and the entries processed so far are exactly the matched entries
\* from the start index up to i, every one before i having ended (by its
\* cursor write or by its failure) before entry i began.
C10_OneEntryAtATime ==
  \A p \in Slots :
    LET halted == pass[p].pc = "returned" /\ pass[p].outcome = "interrupted"
        current == IF C10_Busy(p) \/ halted THEN {pass[p].i} ELSE {}
        before == {j \in Matched(p) : pass[p].startIdx <= j /\ j < pass[p].i}
    IN /\ pass[p].processed = before \cup current
       /\ pass[p].finished = IF C10_Busy(p) THEN before ELSE before \cup current
       /\ C10_Busy(p) => pass[p].i \in Matched(p)

\* C10 witness: entry 1 is at its cursor write, entry 0 has ended before it.
C10_Witness ==
  \E p \in Slots :
    /\ pass[p].pc = "setSyncCursor"
    /\ pass[p].i = 1
    /\ pass[p].processed = {0, 1}
    /\ pass[p].finished = {0}

\* ------------------------------------------------ the scheduler keeps firing
\* The process is started once and is not restarted.
LiveRosters == {<<"a", "x">>, <<"b", "a">>}
LiveInit == Init /\ roster \in LiveRosters
LiveNext == StartupSync \/ TimerSync \/ Tick \/ \E p \in Slots : Step(p)
\* Time passes, the interval timer fires when the earlier pass has returned,
\* and every await of a pass settles.
LiveSpec ==
  /\ LiveInit
  /\ [][LiveNext]_vars
  /\ WF_vars(StartupSync)
  /\ WF_vars(TimerSync)
  /\ WF_vars(Tick)
  /\ \A p \in Slots : WF_vars(Step(p))

TimerFires ==
  /\ booted
  /\ \E p \in Slots :
       /\ pass[p].pc = "idle"
       /\ \A q \in Slots : q < p => pass[q].pc # "idle"
       /\ Invoke(p, FALSE)
  /\ UNCHANGED <<dbVars, envVars, clearedPauseOnStartup, booted>>

OverlapRosters == {<<"a", "x">>}
OverlapInit ==
  Init /\ roster \in OverlapRosters /\ GOOGLE_KEY /\ sync_state = EmptySyncState
OverlapNext == StartupSync \/ TimerFires \/ Tick \/ \E p \in Slots : Step(p)
OverlapSpec == OverlapInit /\ [][OverlapNext]_vars

\* C11: at most one pass of syncClientes is between its start and its return.
C11_AtMostOneActivePass ==
  \A p, q \in Slots :
    (pass[p].pc \notin {"idle", "returned"} /\ pass[q].pc \notin {"idle", "returned"})
      => p = q

\* --------------------------------------------- geocode called on its own
pipelineVars == <<sync_state, clientes, equipamentos, roster,
                  clearedPauseOnStartup, booted, lastOutcome, pass, hist>>

\* step 4 of geocode, reached with no coordinates so far
Fallback(c) ==
  IF TooShort(c.endereco)
  THEN [c EXCEPT !.att = 0, !.host = 1, !.pc = "returned", !.result = NoCoords]
  ELSE [c EXCEPT !.att = 0, !.host = 1, !.reqs = 0, !.pc = "nominatimRaw"]

\* catch (err) of geocode: log, return null
GeocodeCatch(c) ==
  [c EXCEPT !.att = 0, !.host = 1, !.pc = "returned", !.result = NoCoords]

\* geocode(endereco, cep) is called: await sleep(1500), then step 1 or step 4
GeocodeCall ==
  /\ call.pc = "idle"
  /\ \E endereco \in Enderecos, cep \in Ceps :
       LET c == [IdleCall EXCEPT !.endereco = endereco, !.cep = cep]
       IN call' = IF ValidCep(cep) THEN [c EXCEPT !.pc = "viaCepGet"] ELSE Fallback(c)
  /\ UNCHANGED <<pipelineVars, GOOGLE_KEY, unit>>

\* One request of viaCepGet and what geocode does with its outcome.
GeoViaCepGet ==
  /\ call.pc = "viaCepGet"
  /\ \E r \in ViaCepAnswers :
       LET step == ViaCepAttempt(r)
           c == [call EXCEPT !.prev = call.last, !.last = [to |-> "viacep", answer |-> r],
                             !.wait = 0, !.sent.viacep = @ + 1,
                             !.sawErro = @ \/ r.kind = "erro"]
       IN call' =
            CASE step = "return" /\ ViaCepUsable(r) ->
                   [c EXCEPT !.att = 0, !.reqs = 0,
                             !.pc = IF GOOGLE_KEY THEN "google" ELSE "nominatimVia"]
              [] step = "return" /\ ~ViaCepUsable(r) -> Fallback(c)
              [] step = "continue" /\ ~LastTry(call.att, ViaCepTries) ->
                   [c EXCEPT !.wait = ViaCepBackoff(call.att), !.att = @ + 1]
              \* the loop ends, viaCepGet returns null
              [] step = "continue" /\ LastTry(call.att, ViaCepTries) ->
                   Fallback([c EXCEPT !.wait = ViaCepBackoff(call.att)])
              \* throw err
              [] OTHER -> GeocodeCatch(c)
  /\ UNCHANGED <<pipelineVars, GOOGLE_KEY, unit>>

\* if (GOOGLE_KEY) { const gRes = await axios.get(gUrl, ...) ... }
GeoGoogle ==
  /\ call.pc = "google"
  /\ \E r \in GoogleAnswers :
       LET c == [call EXCEPT !.prev = call.last, !.last = [to |-> "google", answer |-> r],
                             !.wait = 0, !.sent.google = @ + 1]
           coords == IF r.kind = "http" THEN GoogleResult(r.results) ELSE NoCoords
       IN call' =
            CASE r.kind = "http" /\ coords # NoCoords ->
                   [c EXCEPT !.pc = "returned", !.result = coords]
              [] r.kind = "http" -> [c EXCEPT !.pc = "nominatimVia", !.reqs = 0]
              [] OTHER -> GeocodeCatch(c)
  /\ UNCHANGED <<pipelineVars, GOOGLE_KEY, unit>>

\* One request of nominatimSearch and what geocode does with its outcome.
GeoNominatimSearch ==
  /\ call.pc \in {"nominatimVia", "nominatimRaw"}
  /\ \E r \in PlaceAnswers :
       LET step == NominatimAttempt(r)
           lastTry == LastTry(call.att, NominatimTries)
           lastHost == call.host >= Len(NOMINATIM_HOSTS)
           c == [call EXCEPT !.prev = call.last,
                             !.last = [to |-> "nominatim", answer |-> r],
                             !.wait = 0, !.reqs = @ + 1,
                             !.sent.via = IF call.pc = "nominatimVia" THEN @ + 1 ELSE @,
                             !.sent.raw = IF call.pc = "nominatimRaw" THEN @ + 1 ELSE @]
           w == [c EXCEPT !.wait = IF step = "continue"
                                   THEN NominatimBackoff(call.att) ELSE 0]
           none == IF call.pc = "nominatimVia" THEN Fallback(w)
                   ELSE [w EXCEPT !.att = 0, !.host = 1, !.pc = "returned",
                                  !.result = NoCoords]
           coords == IF step = "return" THEN NominatimResult(r.data) ELSE NoCoords
       IN call' =
            CASE step = "return" /\ coords # NoCoords ->
                   [c EXCEPT !.att = 0, !.host = 1, !.pc = "returned",
                             !.result = coords]
              [] step = "return" /\ coords = NoCoords -> none
              [] step = "continue" /\ ~lastTry -> [w EXCEPT !.att = @ + 1]
              [] step # "return" /\ (step = "break" \/ lastTry) /\ ~lastHost ->
                   [w EXCEPT !.att = 0, !.host = @ + 1, !.reqs = 0]
              \* "Todos os hosts Nominatim falharam": return null
              [] OTHER -> none
  /\ UNCHANGED <<pipelineVars, GOOGLE_KEY, unit>>

\* The caller has the value; the next call can be made.
GeocodeReturn ==
  /\ call.pc = "returned"
  /\ call' = IdleCall
  /\ UNCHANGED <<pipelineVars, GOOGLE_KEY, unit>>

GeoInit ==
  /\ sync_state = EmptySyncState
  /\ clientes = {}
  /\ equipamentos = {}
  /\ roster = << >>
  /\ GOOGLE_KEY \in BOOLEAN
  /\ clearedPauseOnStartup = FALSE
  /\ booted = FALSE
  /\ lastOutcome = "none"
  /\ pass = [p \in Slots |-> IdlePass]
  /\ call = IdleCall
  /\ unit = IdleUnit
  /\ hist = NoHist
GeoNext ==
  GeocodeCall \/ GeoViaCepGet \/ GeoGoogle \/ GeoNominatimSearch \/ GeocodeReturn
GeoSpec == GeoInit /\ [][GeoNext]_vars

\* The request came back with at least one result.
FoundResult(l) ==
  \/ l.to = "google" /\ l.answer.kind = "http" /\ Len(l.answer.results) > 0
  \/ /\ l.to = "nominatim"
     /\ l.answer.kind = "http"
     /\ l.answer.status = 200
     /\ Len(l.answer.data) > 0
NominatimPcs == {"nominatimVia", "nominatimRaw"}

\* C12: a call of geocode in which no request came back with a result (the
\* registry said erro: true, the providers sent empty lists, or they failed)
\* returns null and does not reject.
C12_NoResultGivesNull ==
  (call.pc = "returned" /\ ~FoundResult(call.last))
    => call.result = NoCoords /\ ~call.threw

\* C12 witness: the registry answered erro: true, the public provider an empty
\* list for the free-text address, and the call returned null.
C12_Witness ==
  /\ call.pc = "returned"
  /\ call.sawErro
  /\ call.last.to = "nominatim"
  /\ call.last.answer.kind = "http"
  /\ call.last.answer.status = 200
  /\ call.last.answer.data = << >>
  /\ call.result = NoCoords

\* C13: once the registry has answered erro: true, the call has sent and
\* sends no request to the keyed provider and none with a registry-built
\* address: it is at the free-text query or has returned.
C13_ErroSkipsToFallback ==
  call.sawErro =>
    /\ call.sent.google = 0
    /\ call.sent.via = 0
    /\ call.pc \in {"nominatimRaw", "returned"}

\* C13 witness: after erro: true the free-text query went out, with the keyed
\* provider configured.
C13_Witness ==
  /\ call.sawErro
  /\ GOOGLE_KEY
  /\ call.sent.raw = 1
  /\ call.sent.viacep = 1

\* C14: when the keyed provider is configured and its answer holds at least one
\* result, the call returns at once with the first result's pair: no request
\* to the public provider has gone out or goes out in this call.
C14_GoogleWinsAtOnce ==
  (call.last.to = "google" /\ FoundResult(call.last)) =>
    /\ GOOGLE_KEY
    /\ call.pc = "returned"
    /\ call.result = <<call.last.answer.results[1].lat, call.last.answer.results[1].lng>>
    /\ call.sent.via = 0
    /\ call.sent.raw = 0
    /\ ~call.threw

\* C14 witness: the keyed provider sent two results and the call returned.
C14_Witness ==
  /\ call.pc = "returned"
  /\ call.last.to = "google"
  /\ call.last.answer.kind = "http"
  /\ Len(call.last.answer.results) = 2
  /\ call.result = <<Loc1.lat, Loc1.lng>>

\* The answer is an HTTP response of this status.
HasStatus(l, st) ==
  l.to = "nominatim" /\ l.answer.kind = "http" /\ l.answer.status = st

\* C15: when an attempt of a search was answered 429 and the next attempt on the
\* same host 200 with one result, the call returns the coordinates of that
\* result, parsed from its lat and lon.
C15_RetryAfter429Succeeds ==
  (/\ HasStatus(call.prev, 429)
   /\ call.reqs >= 2
   /\ HasStatus(call.last, 200)
   /\ Len(call.last.answer.data) = 1)
    => /\ call.pc = "returned"
       /\ call.result = <<parseFloat(call.last.answer.data[1].lat),
                          parseFloat(call.last.answer.data[1].lon)>>
       /\ call.result = <<0 - 966, 0 - 3573>>
       /\ ~call.threw

\* C15 witness: the second request of the free-text search, after a 429,
\* brought the coordinates.
C15_Witness ==
  /\ call.pc = "returned"
  /\ HasStatus(call.prev, 429)
  /\ HasStatus(call.last, 200)
  /\ call.sent.raw = 2
  /\ call.reqs = 2
  /\ call.result # NoCoords

\* C16: for 429 and for 503 alike, an answer with that status to an attempt
\* below the cap is followed by a back-off of 4000 ms times the attempt number
\* and by the next attempt on the same host of the same search; no host
\* receives more than NominatimTries requests in one search.
C16_BackoffOn429And503 ==
  [][(/\ call.pc \in NominatimPcs
      /\ call' # call
      /\ (HasStatus(call'.last, 429) \/ HasStatus(call'.last, 503)))
       => /\ call'.reqs <= NominatimTries
          /\ call.att + 1 < NominatimTries
               => /\ call'.pc = call.pc
                  /\ call'.host = call.host
                  /\ call'.att = call.att + 1
                  /\ call'.wait = 4000 * (call.att + 1)
  ]_vars

\* C17: an answer with a status outside 2xx other than 429 and 503 ends the
\* requests to that host in this search: the search goes to the next host or,
\* with none left, is over (the call goes on to step 4 or returns).
C17_OtherStatusLeavesHost ==
  [][(/\ call.pc \in NominatimPcs
      /\ call' # call
      /\ call'.last.to = "nominatim"
      /\ call'.last.answer.kind = "http"
      /\ call'.last.answer.status \notin (200..299) \cup {429, 503})
       => /\ call'.wait = 0
          /\ \/ call'.pc = call.pc /\ call'.host = call.host + 1 /\ call'.reqs = 0
             \/ /\ call.host = Len(NOMINATIM_HOSTS)
                /\ call'.pc # call.pc
                /\ call'.result = NoCoords
                /\ call.pc = "nominatimRaw" => call'.pc = "returned"
  ]_vars

\* C17 witness: the provider answered 500 to the first free-text request and
\* the call returned null after that one request.
C17_Witness ==
  /\ call.pc = "returned"
  /\ HasStatus(call.last, 500)
  /\ call.sent.raw = 1
  /\ call.sent.via = 0
  /\ call.result = NoCoords

\* C18: a transport fault of a public-provider request that
\* isRetryableNetworkError accepts is followed, below the cap, by a back-off and
\* the next attempt on the same host; one it refuses ends the requests to that
\* host in this search, with no back-off.
C18_FaultRetryOrLeave ==
  [][(/\ call.pc \in NominatimPcs
      /\ call' # call
      /\ call'.last.to = "nominatim"
      /\ call'.last.answer.kind = "fault")
       => LET e == call'.last.answer.error
          IN /\ (isRetryableNetworkError(e) /\ call.att + 1 < NominatimTries)
                  => /\ call'.pc = call.pc
                     /\ call'.host = call.host
                     /\ call'.att = call.att + 1
                     /\ call'.wait = NominatimBackoff(call.att)
                     /\ call'.wait > 0
             /\ ~isRetryableNetworkError(e)
                  => /\ call'.wait = 0
                     /\ \/ call'.pc = call.pc /\ call'.host = call.host + 1
                        \/ call.host = Len(NOMINATIM_HOSTS) /\ call'.pc # call.pc
             /\ call'.reqs <= NominatimTries
  ]_vars

\* C18 witness: a timeout on the third attempt, the fourth attempt pending
\* after a back-off of 12 s.
C18_Witness ==
  /\ call.pc = "nominatimRaw"
  /\ call.last.to = "nominatim"
  /\ call.last.answer.kind = "fault"
  /\ call.last.answer.error = ErrTimeout
  /\ call.att = 3
  /\ call.wait = 12000

\* C19: the free-text query goes out only from a call that has no coordinates
\* yet and whose free-text address, trimmed, has at least 8 characters; a call
\* with a shorter (or no) free-text address never sends it and, no earlier step
\* having found a result, returns null.
C19_FallbackNeedsMinLength ==
  LET long == call.endereco # NULL /\ length(trim(call.endereco)) >= MinEnderecoLen
  IN /\ call.pc = "nominatimRaw" => long /\ call.result = NoCoords /\ ~FoundResult(call.last)
     /\ call.sent.raw > 0 => long
     /\ (~long /\ call.pc = "returned" /\ ~FoundResult(call.last))
          => call.result = NoCoords /\ ~call.threw

\* C19 witness: 7 characters between blanks; the registry-built query brought
\* nothing and the call returned null without the free-text query.
C19_Witness ==
  /\ call.pc = "returned"
  /\ call.endereco = " Rua A 1 "
  /\ call.sent.via >= 1
  /\ call.sent.raw = 0
  /\ call.result = NoCoords

Str0 == << >>
CombiningMarks == {"~"}
IsSpace(ch) == ch = " "

\* String.prototype.normalize("NFD"), one character
NFDChar(ch) == IF ch = "a~" THEN <<"a", "~">> ELSE <<ch>>
RECURSIVE normalizeNFD(_)
normalizeNFD(s) ==
  IF s = Str0 THEN Str0 ELSE NFDChar(Head(s)) \o normalizeNFD(Tail(s))

\* .replace(/[\u0300-\u036f]/g, "")
stripMarks(s) == SelectSeq(s, LAMBDA ch : ch \notin CombiningMarks)

\* String.prototype.trim
strTrim(s) ==
  LET ink == {j \in 1..Len(s) : ~IsSpace(s[j])}
  IN IF ink = {} THEN Str0
     ELSE SubSeq(s, CHOOSE j \in ink : \A k \in ink : j <= k,
                    CHOOSE j \in ink : \A k \in ink : j >= k)

\* .replace(/\s+/g, " ")
RECURSIVE collapseSpaces(_)
collapseSpaces(s) ==
  IF Len(s) <= 1 THEN s
  ELSE IF IsSpace(s[1]) /\ IsSpace(s[2]) THEN collapseSpaces(Tail(s))
  ELSE <<s[1]>> \o collapseSpaces(Tail(s))

\* The letters A-Z and a-z, by position.
UpperLetters ==
  <<"A", "B", "C", "D", "E", "F", "G", "H", "I", "J", "K", "L", "M", "N",
    "O", "P", "Q", "R", "S", "T", "U", "V", "W", "X", "Y", "Z">>
LowerLetters ==
  <<"a", "b", "c", "d", "e", "f", "g", "h", "i", "j", "k", "l", "m", "n",
    "o", "p", "q", "r", "s", "t", "u", "v", "w", "x", "y", "z">>
LetterIndex(letters, ch) == CHOOSE j \in 1..Len(letters) : letters[j] = ch
IsUpper(ch) == \E j \in 1..Len(UpperLetters) : UpperLetters[j] = ch
IsLower(ch) == \E j \in 1..Len(LowerLetters) : LowerLetters[j] = ch
IsDigit(ch) == ch \in {"0", "1", "2", "3", "4", "5", "6", "7", "8", "9"}

\* String.prototype.toLowerCase, one character
LowerChar(ch) ==
  IF IsUpper(ch) THEN LowerLetters[LetterIndex(UpperLetters, ch)] ELSE ch
toLowerCase(s) == [j \in 1..Len(s) |-> LowerChar(s[j])]

\* String.prototype.toUpperCase, one character
UpperChar(ch) ==
  IF IsLower(ch) THEN UpperLetters[LetterIndex(LowerLetters, ch)] ELSE ch
toUpperCase(s) == [j \in 1..Len(s) |-> UpperChar(s[j])]

\* Array.prototype.join
RECURSIVE strJoin(_, _)
strJoin(list, sep) ==
  IF list = << >> THEN Str0
  ELSE IF Len(list) = 1 THEN list[1]
  ELSE list[1] \o sep \o strJoin(Tail(list), sep)

\* String.prototype.includes
strIncludes(s, t) ==
  \E j \in 0..(Len(s) - Len(t)) : SubSeq(s, j + 1, j + Len(t)) = t

\* String.prototype.split on a one-character separator
RECURSIVE strSplit(_, _)
strSplit(s, sep) ==
  IF \E j \in 1..Len(s) : s[j] = sep
  THEN LET at == CHOOSE j \in 1..Len(s) : s[j] = sep /\ \A k \in 1..(j - 1) : s[k] # sep
       IN <<SubSeq(s, 1, at - 1)>> \o strSplit(SubSeq(s, at + 1, Len(s)), sep)
  ELSE <<s>>

\* .filter(Boolean) on a list of strings
filterBoolean(list) == SelectSeq(list, LAMBDA x : x # Str0)
\* the members of a list
Members(list) == {list[j] : j \in 1..Len(list)}

\* ----------------------------------------------------- findMatchingPartner
\* stripAccentsLocal(s)
stripAccentsLocal(s) == strTrim(stripMarks(normalizeNFD(s)))

\* normalizeNameLocal(s)
normalizeNameLocal(s) == toLowerCase(strTrim(collapseSpaces(stripAccentsLocal(s))))

\* nameCandidatesLocal(original): the whole text, then the first two non-empty
\* pieces between commas, each once
nameCandidatesLocal(original) ==
  LET raw == strTrim(original)
      pieces == filterBoolean([j \in 1..Len(strSplit(raw, ",")) |->
                                 strTrim(strSplit(raw, ",")[j])])
      withA == IF Len(pieces) >= 1 /\ pieces[1] # raw THEN <<raw, pieces[1]>> ELSE <<raw>>
      withB == IF Len(pieces) >= 2 /\ pieces[2] \notin Members(withA)
               THEN Append(withA, pieces[2]) ELSE withA
  IN IF raw = Str0 THEN << >>
     ELSE IF strIncludes(raw, <<",">>) THEN withB
     ELSE <<raw>>

\* nameCandidatesLocal(requestedName).map(normalizeNameLocal).filter(Boolean)
Candidates(requestedName) ==
  LET cands == nameCandidatesLocal(requestedName)
  IN filterBoolean([j \in 1..Len(cands) |-> normalizeNameLocal(cands[j])])

\* p.display_name || p.name || ""
PartnerLabel(p) == IF p.display_name # Str0 THEN p.display_name ELSE p.name

\* findMatchingPartner(requestedName, partners), computed on the names
\* themselves; NoPartner is null
NoPartner == [id |-> NULL, display_name |-> Str0, name |-> Str0]
\* A matcher whose second stage returns the first partner that matches by
\* containment, whatever the lengths.
FindMatchingPartnerFirstFuzzy(requestedName, partners) ==
  LET candidates == Members(Candidates(requestedName))
      pn(j) == normalizeNameLocal(PartnerLabel(partners[j]))
      exact == {j \in 1..Len(partners) : pn(j) \in candidates}
      fuzzy == {j \in 1..Len(partners) :
                  /\ pn(j) # Str0
                  /\ \E c \in candidates : strIncludes(pn(j), c) \/ strIncludes(c, pn(j))}
  IN IF candidates = {} THEN NoPartner
     ELSE IF exact # {} THEN partners[CHOOSE j \in exact : \A k \in exact : j <= k]
     ELSE IF fuzzy # {} THEN partners[CHOOSE j \in fuzzy : \A k \in fuzzy : j <= k]
     ELSE NoPartner
FindMatchingPartner(requestedName, partners) ==
  LET candidates == Members(Candidates(requestedName))
      pn(j) == normalizeNameLocal(PartnerLabel(partners[j]))
      exact == {j \in 1..Len(partners) : pn(j) \in candidates}
      \* scores: one element for each partner and candidate that contain one another
      fuzzy == {j \in 1..Len(partners) :
                  /\ pn(j) # Str0
                  /\ \E c \in candidates : strIncludes(pn(j), c) \/ strIncludes(c, pn(j))}
      \* scores.sort((a, b) => b.score - a.score || b.len - a.len)[0], the sort stable
      best == CHOOSE j \in fuzzy :
                \A k \in fuzzy : \/ Len(pn(j)) > Len(pn(k))
                                 \/ Len(pn(j)) = Len(pn(k)) /\ j <= k
  IN IF candidates = {} THEN NoPartner
     ELSE IF exact # {} THEN partners[CHOOSE j \in exact : \A k \in exact : j <= k]
     ELSE IF fuzzy # {} THEN partners[best]
     ELSE NoPartner

\* ------------------------------------ findMatchingPartner called on its own
MaxPartners == 2    \* longest CRM answer handed to findMatchingPartner

sAna == <<"A", "n", "a">>
sANA == <<"A", "N", "A", " ">>
sAnaTilde == <<"a~", "n", "a">>
sBo == <<"B", "o">>
sBoAna == <<"B", "o", ",", " ", "A", "n", "a">>
sAnaBia == <<"A", "n", "a", " ", "B", "i", "a">>
sAnaBiaWide == <<"A", "n", "a", " ", " ", "B", "i", "a">>
sZed == <<"Z", "e", "d">>
sBoAnaZed == <<"B", "o", ",", " ", "A", "n", "a", ",", " ", "Z", "e", "d">>
sAnaBiaCo == <<"A", "n", "a", " ", "B", "i", "a", " ", "C", "o">>

\* Names of the spreadsheet: empty, a comma alone, plain, upper case with a
\* blank, accented, "Company, Person", two blanks between the words, two
\* commas.
RequestedNames ==
  {Str0, <<",">>, sAna, sANA, sAnaTilde, sBoAna, sAnaBiaWide, sBoAnaZed}

\* CRM partners: a person, a contact of a company (display_name "Company,
\* Person", name "Person"), the company, a partner without display_name, a
\* partner no name refers to, a partner with a longer name.
CrmPartners ==
  {[id |-> "101", display_name |-> sAnaBia, name |-> sAnaBia],
   [id |-> "102", display_name |-> sBoAna, name |-> sAna],
   [id |-> "103", display_name |-> sBo, name |-> sBo],
   [id |-> "104", display_name |-> Str0, name |-> sANA],
   [id |-> "105", display_name |-> sZed, name |-> sZed],
   [id |-> "106", display_name |-> sAnaBiaCo, name |-> sAnaBiaCo]}

RECURSIVE PartnerSeqs(_)
PartnerSeqs(n) ==
  IF n = 0 THEN {<< >>}
  ELSE LET shorter == PartnerSeqs(n - 1)
       IN shorter \cup {Append(l, x) : l \in {t \in shorter : Len(t) = n - 1},
                                       x \in CrmPartners}
\* The CRM answer holds each partner once (merged by id).
PartnerLists == {l \in PartnerSeqs(MaxPartners) :
                   \A j, k \in 1..Len(l) : j # k => l[j].id # l[k].id}

restVars == <<pipelineVars, GOOGLE_KEY, call>>

\* const partner = findMatchingPartner(entry.name, customers || [])
FindMatchingPartnerCall ==
  /\ unit.pc = "idle"
  /\ \E requestedName \in RequestedNames, partners \in PartnerLists :
       unit' = [pc |-> "returned", fn |-> "findMatchingPartner",
                requestedName |-> requestedName, partners |-> partners,
                result |-> FindMatchingPartner(requestedName, partners)]
  /\ UNCHANGED restVars

\* The caller has the value; the next call can be made.
UnitReturn ==
  /\ unit.pc = "returned"
  /\ unit' = IdleUnit
  /\ UNCHANGED restVars

\* nameCandidatesLocal(original) called on its own
NameCandidatesLocalCall ==
  /\ unit.pc = "idle"
  /\ \E original \in RequestedNames :
       unit' = [pc |-> "returned", fn |-> "nameCandidatesLocal",
                original |-> original, result |-> nameCandidatesLocal(original)]
  /\ UNCHANGED restVars

\* -------------------------------------- getCustomersFromSheet: the matching
\* normalizeName(s) and nameCandidates(original) of the CRM client: the same
\* text as the driver's local copies
normalizeName(s) == toLowerCase(strTrim(collapseSpaces(strTrim(stripMarks(normalizeNFD(s))))))
nameCandidates(original) ==
  LET raw == strTrim(original)
      pieces == filterBoolean([j \in 1..Len(strSplit(raw, ",")) |->
                                 strTrim(strSplit(raw, ",")[j])])
      withA == IF Len(pieces) >= 1 /\ pieces[1] # raw THEN <<raw, pieces[1]>> ELSE <<raw>>
      withB == IF Len(pieces) >= 2 /\ pieces[2] \notin Members(withA)
               THEN Append(withA, pieces[2]) ELSE withA
  IN IF raw = Str0 THEN << >>
     ELSE IF strIncludes(raw, <<",">>) THEN withB
     ELSE <<raw>>

\* buildFoundKeySet(partners): the normalized display_name and the normalized
\* name of every partner, the empty ones left out
buildFoundKeySet(partners) ==
  {k \in {normalizeName(partners[j].display_name) : j \in 1..Len(partners)}
         \cup {normalizeName(partners[j].name) : j \in 1..Len(partners)} : k # Str0}

\* isRequestedFound(requestedName, foundKeySet)
isRequestedFound(requestedName, foundKeySet) ==
  LET cands == nameCandidates(requestedName)
  IN \E j \in 1..Len(cands) :
       normalizeName(cands[j]) # Str0 /\ normalizeName(cands[j]) \in foundKeySet

\* The CRM's "in" on a text field: equality with one of the values.
OdooIn(field, values) == field \in Members(values)
\* The CRM's "ilike": the field holds the text, letter case ignored.
OdooIlike(field, text) == strIncludes(toLowerCase(field), toLowerCase(text))

\* PASSO 1: search_read with display_name in chunk or name in chunk (the
\* roster is shorter than one chunk; every partner of the CRM is a customer)
ExactSearchRead(requested, crm) ==
  SelectSeq(crm, LAMBDA p : OdooIn(p.display_name, requested) \/ OdooIn(p.name, requested))

\* PASSO 2, one missing name: the partners whose display_name or name holds
\* one of the candidates (fewer than FUZZY_LIMIT)
FuzzySearchRead(missing, crm) ==
  LET candidates == nameCandidates(missing)
  IN SelectSeq(crm, LAMBDA p :
       \E j \in 1..Len(candidates) :
          OdooIlike(p.display_name, candidates[j]) \/ OdooIlike(p.name, candidates[j]))

\* guess.sort(...)[0]: a name that holds the target or is held by it first,
\* then the longer name, the sort stable
BestGuess(missing, guess) ==
  LET target == normalizeName(missing)
      gn(j) == normalizeName(PartnerLabel(guess[j]))
      score(j) == IF strIncludes(gn(j), target) \/ strIncludes(target, gn(j)) THEN 2 ELSE 0
      before(j, k) == \/ score(j) > score(k)
                      \/ score(j) = score(k) /\ Len(gn(j)) > Len(gn(k))
                      \/ score(j) = score(k) /\ Len(gn(j)) = Len(gn(k)) /\ j <= k
  IN guess[CHOOSE j \in 1..Len(guess) : \A k \in 1..Len(guess) : before(j, k)]

\* requested.filter((r) => !isRequestedFound(r, foundKeys))
NotFoundOf(requested, partners) ==
  SelectSeq(requested, LAMBDA r : ~isRequestedFound(r, buildFoundKeySet(partners)))

\* fuzzyFound: the best guess of every missing name that has one
RECURSIVE FuzzyFound(_, _)
FuzzyFound(notFound, crm) ==
  IF notFound = << >> THEN << >>
  ELSE LET guess == FuzzySearchRead(Head(notFound), crm)
       IN (IF guess = << >> THEN << >> ELSE <<BestGuess(Head(notFound), guess)>>)
          \o FuzzyFound(Tail(notFound), crm)

\* [...byId.values()]: the exact results, then the guesses not yet there, each
\* id once
RECURSIVE MergeById(_, _)
MergeById(results, more) ==
  IF more = << >> THEN results
  ELSE IF \E j \in 1..Len(results) : results[j].id = Head(more).id
       THEN MergeById(results, Tail(more))
       ELSE MergeById(Append(results, Head(more)), Tail(more))

\* The customers and the notFound list getCustomersFromSheet returns for the
\* names of the spreadsheet and the partners the CRM holds.
SheetAnswer(requested, crm) ==
  LET results == ExactSearchRead(requested, crm)
      notFound == NotFoundOf(requested, results)
      merged == MergeById(results, FuzzyFound(notFound, crm))
  IN IF requested = << >> THEN [customers |-> << >>, notFound |-> << >>]
     ELSE IF notFound # << >>
          THEN [customers |-> merged, notFound |-> NotFoundOf(requested, merged)]
          ELSE [customers |-> results, notFound |-> notFound]

\* readCustomersFromXlsx: the names are trimmed, not empty, each once; a plain
\* name, an accented one, "Company, Person", a name with two commas
SheetNames == {sAna, sAnaTilde, sBoAna, sBoAnaZed}
MaxSheet == 2    \* longest spreadsheet handed to getCustomersFromSheet
RECURSIVE SheetSeqs(_)
SheetSeqs(n) ==
  IF n = 0 THEN {<< >>}
  ELSE LET shorter == SheetSeqs(n - 1)
       IN shorter \cup {Append(l, x) : l \in {t \in shorter : Len(t) = n - 1},
                                       x \in SheetNames}
SheetLists == {l \in SheetSeqs(MaxSheet) :
                 l # << >> /\ \A j, k \in 1..Len(l) : j # k => l[j] # l[k]}

\* getCustomersFromSheet called on its own
GetCustomersFromSheetCall ==
  /\ unit.pc = "idle"
  /\ \E requested \in SheetLists, crm \in PartnerLists :
       LET answer == SheetAnswer(requested, crm)
       IN unit' = [pc |-> "returned", fn |-> "getCustomersFromSheet",
                   requested |-> requested, crm |-> crm,
                   customers |-> answer.customers, notFound |-> answer.notFound]
  /\ UNCHANGED restVars

MatchInit == GeoInit
MatchNext ==
  \/ FindMatchingPartnerCall
  \/ NameCandidatesLocalCall
  \/ GetCustomersFromSheetCall
  \/ UnitReturn
MatchSpec == MatchInit /\ [][MatchNext]_vars

\* The partner's normalized display name or normalized name is one of the
\* normalized candidates.
C21_Exact(p, cands) ==
  \/ normalizeNameLocal(p.display_name) \in cands
  \/ normalizeNameLocal(p.name) \in cands

\* C21: when some partner of the list has a normalized display name or a
\* normalized name equal to a normalized candidate of the requested name,
\* findMatchingPartner returns a partner with such an exact match.
C21_ExactMatchWins ==
  (unit.pc = "returned" /\ unit.fn = "findMatchingPartner") =>
    LET cands == Members(Candidates(unit.requestedName))
    IN (\E j \in 1..Len(unit.partners) : C21_Exact(unit.partners[j], cands))
         => /\ unit.result # NoPartner
            /\ C21_Exact(unit.result, cands)

\* ---------------------------------------------------- buildEnderecoCompleto
sBrasil == <<"B", "r", "a", "s", "i", "l">>
sBR == <<"B", "R">>
\* null, where a string is expected
NoAddress == Str0

\* normalizeCep(cep)
normalizeCep(cep) == SelectSeq(cep, IsDigit)

\* A cleanUF without the test for the country code.
cleanUFKeepsBR(value) ==
  LET uf == toUpperCase(strTrim(value))
  IN IF Len(uf) = 2 /\ IsUpper(uf[1]) /\ IsUpper(uf[2]) THEN uf ELSE Str0
\* cleanUF(value); null is the empty string
cleanUF(value) ==
  LET uf == toUpperCase(strTrim(value))
  IN IF ~(Len(uf) = 2 /\ IsUpper(uf[1]) /\ IsUpper(uf[2])) THEN Str0
     ELSE IF uf = sBR THEN Str0
     ELSE uf

\* [...].filter(Boolean) of buildEnderecoCompleto
PartsFilter(list) == filterBoolean(list)

\* const parts = [logradouro?.trim(), ..., (pais || "Brasil")?.trim()].filter(Boolean)
EnderecoParts(in) ==
  PartsFilter(<<strTrim(in.logradouro), strTrim(in.numero), strTrim(in.bairro),
                strTrim(in.cidade), cleanUF(in.uf), normalizeCep(in.cep),
                strTrim(IF in.pais # Str0 THEN in.pais ELSE sBrasil)>>)

\* const q = parts.join(", ").replace(/\s+/g, " ").trim()
EnderecoQ(in) == strTrim(collapseSpaces(strJoin(EnderecoParts(in), <<",", " ">>)))

\* buildEnderecoCompleto({ logradouro, numero, bairro, cidade, uf, cep, pais })
buildEnderecoCompleto(in) ==
  LET q == EnderecoQ(in)
  IN IF q = Str0 \/ toLowerCase(q) = toLowerCase(sBrasil) THEN NoAddress ELSE q

\* Values of the fields: absent, padded with blanks, one letter; region codes
\* in both cases, the country code, a region name; postal codes with and
\* without the dash; countries.
Logradouros == {Str0, <<" ", "R", "u", "a", " ", " ", "A", " ">>, <<"R">>}
Numeros == {Str0, <<"1", "0">>}
Bairros == {Str0, <<"C", "e", "n", "t", "r", "o">>}
Cidades == {Str0, <<"M", "a", "c", "e", "i", "o">>}
Ufs == {Str0, sBR, <<" ", "b", "r">>, <<"a", "l">>, <<"A", "L">>, <<"A", "l", "a">>}
CepsTyped == {Str0, <<"5", "7", "0", "0", "0", "-", "0", "0", "0">>, <<"5", "7", "0", "0", "0", "0", "0", "0">>}
Paises == {Str0, sBrasil, <<"b", "r", "a", "s", "i", "l", " ">>, <<"B", "r", "a", "z", "i", "l">>, <<" ">>}
EnderecoInputs ==
  [logradouro : Logradouros, numero : Numeros, bairro : Bairros, cidade : Cidades,
   uf : Ufs, cep : CepsTyped, pais : Paises]

\* The fields but the street, the region and the country absent.
SparseInputs ==
  [logradouro : Logradouros, numero : {Str0}, bairro : {Str0}, cidade : {Str0},
   uf : Ufs, cep : {Str0}, pais : Paises]

\* buildEnderecoCompleto is called with the fields of an address
BuildEnderecoCompletoCall(inputs) ==
  /\ unit.pc = "idle"
  /\ \E in \in inputs :
       unit' = [pc |-> "returned", fn |-> "buildEnderecoCompleto", in |-> in,
                result |-> buildEnderecoCompleto(in)]
  /\ UNCHANGED restVars

AddrInit == GeoInit
AddrNext == BuildEnderecoCompletoCall(EnderecoInputs) \/ UnitReturn
AddrSpec == AddrInit /\ [][AddrNext]_vars

\* ------------------------------------------- the equipment text of an entry
\* "--" stands for the one character U+2014 (em dash).
EmDash == "--"
\* null, where a number is expected; a number n is <<n>>
NoQty == << >>

\* the longest prefix of s made of characters of the set
RECURSIVE LeadLen(_, _)
LeadLen(s, set) ==
  IF s # Str0 /\ Head(s) \in set THEN 1 + LeadLen(Tail(s), set) ELSE 0
DropLead(s, set) == SubSeq(s, LeadLen(s, set) + 1, Len(s))

\* equipmentRaw.split(/[;,\n|]+/)
EquipSeparators == {";", ",", "\n", "|"}
RECURSIVE splitAny(_, _)
splitAny(s, seps) ==
  IF \E j \in 1..Len(s) : s[j] \in seps
  THEN LET at == CHOOSE j \in 1..Len(s) :
                   s[j] \in seps /\ \A k \in 1..(j - 1) : s[k] \notin seps
       IN <<SubSeq(s, 1, at - 1)>> \o splitAny(SubSeq(s, at + 1, Len(s)), seps)
  ELSE <<s>>
\* const parts = equipmentRaw.split(/[;,\n|]+/).map((p) => p.trim()).filter(Boolean)
EquipParts(equipmentRaw) ==
  LET pieces == splitAny(equipmentRaw, EquipSeparators)
  IN filterBoolean([j \in 1..Len(pieces) |-> strTrim(pieces[j])])

\* parseInt(m[2], 10) of a run of digits
DigitChars == <<"0", "1", "2", "3", "4", "5", "6", "7", "8", "9">>
RECURSIVE parseInt(_)
parseInt(ds) ==
  IF ds = Str0 THEN 0
  ELSE 10 * parseInt(SubSeq(ds, 1, Len(ds) - 1))
         + LetterIndex(DigitChars, ds[Len(ds)]) - 1

\* sanitizeEquipmentName(raw)
Digits == {DigitChars[j] : j \in 1..Len(DigitChars)}
\* /^[A-Za-z]\/[0-9]{4}\/[0-9]+\s*[-]\s*/i : the length of the match, 0 if none
OrderPrefixLen(s) ==
  IF /\ Len(s) >= 9
     /\ IsUpper(s[1]) \/ IsLower(s[1])
     /\ s[2] = "/"
     /\ \A j \in 3..6 : IsDigit(s[j])
     /\ s[7] = "/"
     /\ IsDigit(s[8])
  THEN LET ds == 7 + LeadLen(SubSeq(s, 8, Len(s)), Digits)
           ws == ds + LeadLen(SubSeq(s, ds + 1, Len(s)), {" "})
       IN IF ws < Len(s) /\ s[ws + 1] = "-"
          THEN ws + 1 + LeadLen(SubSeq(s, ws + 2, Len(s)), {" "})
          ELSE 0
  ELSE 0
\* s.match(/\[[^\]]+\]\s*(.+)$/) : the positions of "[" that start a match
BracketStarts(s) ==
  {j \in 1..Len(s) :
     /\ s[j] = "["
     /\ \E k \in (j + 2)..(Len(s) - 1) :
          s[k] = "]" /\ \A m \in (j + 1)..(k - 1) : s[m] # "]"}
AfterBracket(s) ==
  IF BracketStarts(s) = {} THEN s
  ELSE LET j == CHOOSE x \in BracketStarts(s) : \A y \in BracketStarts(s) : x <= y
           k == CHOOSE x \in (j + 2)..(Len(s) - 1) :
                  s[x] = "]" /\ \A m \in (j + 1)..(x - 1) : s[m] # "]"
       IN DropLead(SubSeq(s, k + 1, Len(s)), {" "})
sanitizeEquipmentName(raw) ==
  LET s0 == strTrim(raw)
      s1 == [j \in 1..Len(s0) |-> IF s0[j] = EmDash THEN "-" ELSE s0[j]]
      s2 == SubSeq(s1, OrderPrefixLen(s1) + 1, Len(s1))
      s3 == AfterBracket(s2)
      s4 == DropLead(s3, {" ", "-", EmDash, ":"})
  IN strTrim(collapseSpaces(s4))

\* p.match(/^(.*?)(?:[\s\-x\(*]*([0-9]+)\)?)?\s*$/i): what follows group 1.
\*   QtyDigits(rest) is group 2 when the optional group matches all of rest
QtyLead == {" ", "-", EmDash, "x", "X", "(", "*"}
QtyDigits(rest) ==
  LET lead == LeadLen(rest, QtyLead)
      n == LeadLen(SubSeq(rest, lead + 1, Len(rest)), Digits)
      paren == IF lead + n < Len(rest) /\ rest[lead + n + 1] = ")" THEN 1 ELSE 0
      tail == SubSeq(rest, lead + n + paren + 1, Len(rest))
  IN IF n >= 1 /\ LeadLen(tail, {" "}) = Len(tail)
     THEN SubSeq(rest, lead + 1, lead + n)
     ELSE Str0
TailMatches(rest) ==
  QtyDigits(rest) # Str0 \/ LeadLen(rest, {" "}) = Len(rest)

\* parsePart(p): { name, qty }
parsePart(p) ==
  LET \* (.*?) is lazy: the shortest group 1 after which the rest matches
      cut == CHOOSE k \in 0..Len(p) :
               /\ TailMatches(SubSeq(p, k + 1, Len(p)))
               /\ \A m \in 0..(k - 1) : ~TailMatches(SubSeq(p, m + 1, Len(p)))
      digits == QtyDigits(SubSeq(p, cut + 1, Len(p)))
  IN [name |-> sanitizeEquipmentName(strTrim(SubSeq(p, 1, cut))),
      qty |-> IF digits # Str0 /\ parseInt(digits) # 0 THEN <<parseInt(digits)>>
              ELSE NoQty]

\* --------------------------------------- processarCliente called on its own
\* CRM records c: a full address (twice, the street changed), a record with
\* nothing but a region code and the country as the CRM names it in English,
\* and the same record without the country.
CrmRecords ==
  {[id |-> "101", street |-> <<"R", "u", "a", " ", "A">>, numero |-> <<"1", "0">>, bairro |-> <<"C", "e", "n", "t", "r", "o">>,
    city |-> <<"M", "a", "c", "e", "i", "o">>, state_code |-> <<"a", "l">>, zip |-> <<"5", "7", "0", "0", "0", "-", "0", "0", "0">>, country |-> sBrasil],
   [id |-> "101", street |-> <<"R", "u", "a", " ", "B">>, numero |-> <<"1", "0">>, bairro |-> <<"C", "e", "n", "t", "r", "o">>,
    city |-> <<"M", "a", "c", "e", "i", "o">>, state_code |-> <<"a", "l">>, zip |-> <<"5", "7", "0", "0", "0", "-", "0", "0", "0">>, country |-> sBrasil],
   [id |-> "102", street |-> Str0, numero |-> Str0, bairro |-> Str0,
    city |-> Str0, state_code |-> sBR, zip |-> Str0, country |-> <<"B", "r", "a", "z", "i", "l">>],
   [id |-> "102", street |-> Str0, numero |-> Str0, bairro |-> Str0,
    city |-> Str0, state_code |-> sBR, zip |-> Str0, country |-> Str0]}

\* Column "Itens do pedido" of the entry: none, separators alone, two items,
\* one of them, one name twice, a fragment that is a quantity alone.
EquipmentTexts ==
  {Str0, <<";">>, <<"[", "C", "1", "]", " ", "G", "e", "r", " ", "x", "2", ";", " ", "C", "m", "p", " ", "(", "1", ")">>, <<"C", "m", "p", " ", "(", "1", ")">>, <<"G", "e", "r", " ", "x", "2", ";", " ", "G", "e", "r", " ", "x", "3">>, <<"G", "e", "r", ",", " ", "x", "2">>}
\* Only the entries of partner 101 carry equipment.
EquipmentTextsOf(c) == IF c.id = "101" THEN EquipmentTexts ELSE {Str0}

\* What geocode returns: null, or coordinates with the region the provider
\* normalized (normalized.uf), here the country code or a region code.
NoGeo == [found |-> FALSE, lat |-> 0, lng |-> 0, uf |-> Str0]
ResolverAnswers ==
  {NoGeo,
   [found |-> TRUE, lat |-> 0 - 966, lng |-> 0 - 3573, uf |-> sBR],
   [found |-> TRUE, lat |-> 0 - 966, lng |-> 0 - 3573, uf |-> <<"S", "P">>]}

\* the arguments of buildEnderecoCompleto in processarCliente
EnderecoOf(c) ==
  [logradouro |-> c.street, numero |-> c.numero, bairro |-> c.bairro,
   cidade |-> c.city, uf |-> cleanUF(c.state_code), cep |-> c.zip,
   pais |-> IF c.country # Str0 THEN c.country ELSE sBrasil]

\* const estadoSiglaFinal = estadoSiglaOdoo || ufFromGeocode
estadoSiglaFinal(c, geo) ==
  IF cleanUF(c.state_code) # Str0 THEN cleanUF(c.state_code) ELSE cleanUF(geo.uf)

\* geo?.lat || null; a number n is <<n>>, null is << >>
OrNull(found, n) == IF found /\ n # 0 THEN <<n>> ELSE << >>

\* The values of the INSERT INTO clientes; id is set by the table.
\*   from   the arguments that produced the values (history)
ClienteValues(c, geo, enderecoCompleto) ==
  [id |-> 0, id_odoo |-> c.id, logradouro |-> c.street,
   estado |-> estadoSiglaFinal(c, geo), cep |-> normalizeCep(c.zip),
   endereco_completo |-> enderecoCompleto,
   latitude |-> OrNull(geo.found, geo.lat), longitude |-> OrNull(geo.found, geo.lng),
   from |-> [c |-> c, geo |-> geo]]

\* AUTO_INCREMENT of clientes.id
NextId(table) ==
  IF table = {} THEN 1
  ELSE 1 + CHOOSE n \in {r.id : r \in table} : \A r \in table : r.id <= n

\* An INSERT that finds no key to collide with.
InsertAlways(table, v) == table \cup {[v EXCEPT !.id = NextId(table)]}
\* An upsert that keeps the stored coordinates when the new ones are null
\* (latitude = COALESCE(VALUES(latitude), latitude)).
InsertKeepsCoordinates(table, v) ==
  IF \E r \in table : r.id_odoo = v.id_odoo
  THEN {IF r.id_odoo = v.id_odoo
        THEN [v EXCEPT !.id = r.id,
                       !.latitude = IF v.latitude = << >> THEN r.latitude ELSE @,
                       !.longitude = IF v.longitude = << >> THEN r.longitude ELSE @]
        ELSE r : r \in table}
  ELSE table \cup {[v EXCEPT !.id = NextId(table)]}
\* INSERT INTO clientes (...) VALUES (...) ON DUPLICATE KEY UPDATE col = VALUES(col), ...
InsertOnDuplicateKeyUpdate(table, v) ==
  IF \E r \in table : r.id_odoo = v.id_odoo
  THEN {IF r.id_odoo = v.id_odoo THEN [v EXCEPT !.id = r.id] ELSE r : r \in table}
  ELSE table \cup {[v EXCEPT !.id = NextId(table)]}

\* SELECT id FROM clientes WHERE id_odoo = ? LIMIT 1; 0 when there is no row
SelectClienteId(table, id_odoo) ==
  IF \E r \in table : r.id_odoo = id_odoo
  THEN (CHOOSE r \in table : r.id_odoo = id_odoo).id
  ELSE 0

\* DELETE FROM equipamentos WHERE cliente_id = ?
DeleteEquipamentos(table, clienteId) == {e \in table : e.cliente_id # clienteId}

\* INSERT INTO equipamentos (cliente_id, nome, quantidade) VALUES (?, ?, ?) under
\* UNIQUE KEY cliente_equip (cliente_id, nome); the error of a collision is ignored
InsertEquipamento(table, clienteId, item) ==
  IF \E e \in table : e.cliente_id = clienteId /\ e.nome = item.name
  THEN table
  ELSE table \cup {[cliente_id |-> clienteId, nome |-> item.name,
                    quantidade |-> item.qty]}

\* the line items of a customer, as { name, qty }
ItemsOf(table, clienteId) ==
  {[name |-> e.nome, qty |-> e.quantidade] : e \in {x \in table : x.cliente_id = clienteId}}

\* processarCliente(c, requestedEntry) up to its first await:
\*   rowBefore, before   the row and the line items of the customer when the
\*                       call was made (history)
ProcessarClienteCall ==
  /\ unit.pc = "idle"
  /\ \E c \in CrmRecords :
       \E equipment \in EquipmentTextsOf(c) :
         LET enderecoCompleto == buildEnderecoCompleto(EnderecoOf(c))
         IN unit' = [pc |-> IF enderecoCompleto # NoAddress THEN "geocode" ELSE "upsert",
                     fn |-> "processarCliente", c |-> c, equipment |-> equipment,
                     enderecoCompleto |-> enderecoCompleto, geoCalled |-> FALSE,
                     geo |-> NoGeo, clienteId |-> 0, parts |-> << >>, part |-> 0,
                     ok |-> FALSE, rowBefore |-> {r \in clientes : r.id_odoo = c.id},
                     before |-> ItemsOf(equipamentos, SelectClienteId(clientes, c.id))]
  /\ UNCHANGED restVars

\* const geo = enderecoCompleto ? await geocode(enderecoCompleto, normalizeCep(cep)) : null
ProcGeocode ==
  /\ unit.pc = "geocode"
  /\ \E geo \in ResolverAnswers :
       unit' = [unit EXCEPT !.geo = geo, !.geoCalled = TRUE, !.pc = "upsert"]
  /\ UNCHANGED restVars

\* await findMatches() (its rows are logged); await db.query(INSERT INTO clientes ...)
ProcUpsert ==
  /\ unit.pc = "upsert"
  /\ clientes' = InsertOnDuplicateKeyUpdate(
                   clientes, ClienteValues(unit.c, unit.geo, unit.enderecoCompleto))
  /\ unit' = IF strTrim(unit.equipment) # Str0
             THEN [unit EXCEPT !.pc = "equipSelect"]
             ELSE [unit EXCEPT !.pc = "returned", !.ok = TRUE]
  /\ UNCHANGED <<sync_state, equipamentos, roster, clearedPauseOnStartup, booted,
                 lastOutcome, pass, GOOGLE_KEY, call, hist>>

\* CREATE TABLE IF NOT EXISTS equipamentos; SELECT id FROM clientes WHERE id_odoo = ?
ProcEquipSelect ==
  /\ unit.pc = "equipSelect"
  /\ LET clienteId == SelectClienteId(clientes, unit.c.id)
     IN unit' = IF clienteId # 0
                THEN [unit EXCEPT !.clienteId = clienteId, !.pc = "equipDelete"]
                ELSE [unit EXCEPT !.pc = "returned", !.ok = TRUE]
  /\ UNCHANGED restVars

\* DELETE FROM equipamentos WHERE cliente_id = ?; const parts = ...
ProcEquipDelete ==
  /\ unit.pc = "equipDelete"
  /\ equipamentos' = DeleteEquipamentos(equipamentos, unit.clienteId)
  /\ LET parts == EquipParts(strTrim(unit.equipment))
     IN unit' = IF parts = << >>
                THEN [unit EXCEPT !.parts = parts, !.pc = "returned", !.ok = TRUE]
                ELSE [unit EXCEPT !.parts = parts, !.part = 0, !.pc = "equipInsert"]
  /\ UNCHANGED <<sync_state, clientes, roster, clearedPauseOnStartup, booted,
                 lastOutcome, pass, GOOGLE_KEY, call, hist>>

\* for (const part of parts) { const { name, qty } = parsePart(part); try { INSERT } catch {} }
ProcEquipInsert ==
  /\ unit.pc = "equipInsert"
  /\ equipamentos' = InsertEquipamento(equipamentos, unit.clienteId,
                                       parsePart(unit.parts[unit.part + 1]))
  /\ unit' = IF unit.part + 1 >= Len(unit.parts)
             THEN [unit EXCEPT !.part = @ + 1, !.pc = "returned", !.ok = TRUE]
             ELSE [unit EXCEPT !.part = @ + 1]
  /\ UNCHANGED <<sync_state, clientes, roster, clearedPauseOnStartup, booted,
                 lastOutcome, pass, GOOGLE_KEY, call, hist>>

\* A query of processarCliente rejects: catch (err) { ...; return false }
ProcThrows ==
  /\ unit.pc \in {"upsert", "equipSelect", "equipDelete"}
  /\ unit' = [unit EXCEPT !.pc = "returned", !.ok = FALSE]
  /\ UNCHANGED restVars

ProcInit == GeoInit /\ ~GOOGLE_KEY
ProcNext ==
  \/ BuildEnderecoCompletoCall(SparseInputs)
  \/ ProcessarClienteCall
  \/ ProcGeocode
  \/ ProcUpsert
  \/ ProcEquipSelect
  \/ ProcEquipDelete
  \/ ProcEquipInsert
  \/ ProcThrows
  \/ UnitReturn
ProcSpec == ProcInit /\ [][ProcNext]_vars

\* The items parsed from the equipment text of the call.
ParsedItems(equipment) ==
  {parsePart(part) : part \in Members(EquipParts(strTrim(equipment)))}
\* processarCliente has returned true for an entry with equipment text.
ProcessedWithEquipment ==
  /\ unit.pc = "returned"
  /\ unit.fn = "processarCliente"
  /\ unit.ok
  /\ strTrim(unit.equipment) # Str0

\* C22: when a customer that holds line items of an earlier pass, one of them
\* absent from the text of this pass, has been processed with non-empty
\* equipment text, its persisted line items are exactly the items parsed
\* from the text of this pass.
C22_SecondTextReplacesItems ==
  (ProcessedWithEquipment /\ unit.before \ ParsedItems(unit.equipment) # {})
    => ItemsOf(equipamentos, unit.clienteId) = ParsedItems(unit.equipment)

\* The INSERT INTO clientes of the running call has been executed by this step.
C23_Upserted ==
  /\ unit.pc = "upsert"
  /\ unit'.pc = "equipSelect" \/ (unit'.pc = "returned" /\ unit'.ok)
\* The row the customer had when the call was made came from the same CRM
\* record and the same answer of the resolver as this call.
C23_SameAsBefore(u) ==
  \E r \in u.rowBefore : r.from = [c |-> u.c, geo |-> u.geo]

\* C23: no two rows of clientes share a CRM id; the INSERT of processarCliente
\* leaves exactly one row for the partner's CRM id, and when the partner was
\* processed before from the same CRM data and the same resolver answer the
\* table is what it was: the row after the second pass equals the row after
\* the first.
C23_UpsertIdempotent ==
  [][/\ \A r1, r2 \in clientes' : r1.id_odoo = r2.id_odoo => r1 = r2
     /\ C23_Upserted =>
          /\ Cardinality({r \in clientes' : r.id_odoo = unit.c.id}) = 1
          /\ C23_SameAsBefore(unit) => clientes' = clientes
    ]_vars

\* C23 witness: partner 101, resolved to coordinates, has been written a second
\* time from the same record and the same answer, next to the row of partner 102.
C23_Witness ==
  /\ unit.pc \in {"equipSelect", "returned"}
  /\ unit.fn = "processarCliente"
  /\ unit.pc = "returned" => unit.ok
  /\ unit.geo.found
  /\ C23_SameAsBefore(unit)
  /\ unit.rowBefore \subseteq clientes
  /\ Cardinality(clientes) = 2

\* the components of a canonical address: what stands between its commas
AddressComponents(q) ==
  LET pieces == strSplit(q, ",")
  IN {strTrim(pieces[j]) : j \in 1..Len(pieces)}

\* C24: an address that buildEnderecoCompleto returned, to a direct call or in
\* processarCliente, has no component "BR", and no row of clientes has "BR"
\* as its region code (estado).
C24_NeverRegionBR ==
  /\ (unit.pc = "returned" /\ unit.fn = "buildEnderecoCompleto" /\ unit.result # NoAddress)
       => sBR \notin AddressComponents(unit.result)
  /\ (unit.pc # "idle" /\ unit.fn = "processarCliente" /\ unit.enderecoCompleto # NoAddress)
       => sBR \notin AddressComponents(unit.enderecoCompleto)
  /\ \A r \in clientes : r.estado # sBR

\* C24 witness: buildEnderecoCompleto was handed the country code as region and
\* returned an address, and a row is persisted for a partner whose CRM record
\* and whose resolver answer both carry the country code as region.
C24_Witness ==
  /\ unit.pc = "returned"
  /\ unit.fn = "buildEnderecoCompleto"
  /\ toUpperCase(strTrim(unit.in.uf)) = sBR
  /\ unit.result # NoAddress
  /\ \E r \in clientes : r.from.c.state_code = sBR /\ r.from.geo.uf = sBR

\* The components of the canonical address built from the fields: each field
\* as it stands in the address, the empty string for a field that is left out.
C25_Components(in) ==
  [logradouro |-> collapseSpaces(strTrim(in.logradouro)),
   numero |-> collapseSpaces(strTrim(in.numero)),
   bairro |-> collapseSpaces(strTrim(in.bairro)),
   cidade |-> collapseSpaces(strTrim(in.cidade)),
   uf |-> cleanUF(in.uf),
   cep |-> normalizeCep(in.cep),
   pais |-> collapseSpaces(strTrim(IF in.pais # Str0 THEN in.pais ELSE sBrasil))]
C25_InOrder(comp) ==
  SelectSeq(<<comp.logradouro, comp.numero, comp.bairro, comp.cidade, comp.uf,
              comp.cep, comp.pais>>, LAMBDA x : x # Str0)

\* C25: an address that buildEnderecoCompleto returned is its non-empty
\* components in the order street, number, district, city, region, postal
\* code, country, and building again from these components gives the same
\* string.
C25_BuildIdempotent ==
  (unit.pc = "returned" /\ unit.fn = "buildEnderecoCompleto" /\ unit.result # NoAddress)
    => /\ unit.result = strJoin(C25_InOrder(C25_Components(unit.in)), <<",", " ">>)
       /\ buildEnderecoCompleto(C25_Components(unit.in)) = unit.result

\* const semPontuacao = q.replace(/[, ]/g, ""); ... semPontuacao.length < 8
\* (the threshold of the earlier revision of buildEnderecoCompleto)
MinSignificantChars == 8
semPontuacao(q) == SelectSeq(q, LAMBDA ch : ch \notin {",", " "})

\* The string built from the fields is the country name alone, or has fewer
\* significant characters than the threshold.
C26_Unusable(in) ==
  LET q == EnderecoQ(in)
      country == collapseSpaces(strTrim(IF in.pais # Str0 THEN in.pais ELSE sBrasil))
  IN \/ q = country
     \/ Len(semPontuacao(q)) < MinSignificantChars

\* C26: when the built string is only the country name or has fewer
\* significant characters than the threshold, buildEnderecoCompleto returns
\* null and processarCliente makes no geocode call for the entry.
C26_NullAndNoGeocode ==
  /\ (unit.pc = "returned" /\ unit.fn = "buildEnderecoCompleto" /\ C26_Unusable(unit.in))
       => unit.result = NoAddress
  /\ (unit.pc # "idle" /\ unit.fn = "processarCliente" /\ C26_Unusable(EnderecoOf(unit.c)))
       => (unit.enderecoCompleto = NoAddress /\ ~unit.geoCalled)

\* C27: no row of equipamentos has an empty name.
C27_NoEmptyName == \A e \in equipamentos : e.nome # Str0

\* =================================== syncClientes: every collaborator fails
\* The awaits of syncClientes and of what it calls whose rejection reaches a
\* catch block of syncClientes or of processarCliente (a rejected INSERT INTO
\* equipamentos is swallowed where it is made).
AwaitPcs ==
  {"clearPauseStartup", "getPauseState", "diffQuery", "clearPauseElapsed",
   "getCustomersFromSheet", "getSyncCursor",
   "viaCepGet", "google", "nominatimVia", "nominatimRaw",
   "findMatches", "upsert", "equipSelect", "equipDelete",
   "setSyncCursor", "setPause"}

\* for (...) { try { const ok = await processarCliente(...); if (ok) await
\* setSyncCursor(...) } catch (err) { ... } }
InnerTryPcs ==
  {"viaCepGet", "google", "nominatimVia", "nominatimRaw",
   "findMatches", "upsert", "equipSelect", "equipDelete", "setSyncCursor"}

\* A function whose inner catch block stands after the outer try block.
OuterTryLeavesCatchOut ==
  {"clearPauseStartup", "getPauseState", "diffQuery", "clearPauseElapsed",
   "getCustomersFromSheet", "getSyncCursor"}
\* try { ... } catch (err) { console.error("ERRO PRINCIPAL", err) } around the
\* whole body: the awaits outside the inner try, await setPause() of the
\* inner catch block among them.
OuterTryPcs ==
  {"clearPauseStartup", "getPauseState", "diffQuery", "clearPauseElapsed",
   "getCustomersFromSheet", "getSyncCursor", "setPause"}

\* catch (err) { console.error("ERRO PRINCIPAL:", err) }: the pass ends
OuterCatch(p) == [pass[p] EXCEPT !.pc = "returned", !.outcome = "error"]

\* Where an error thrown at the await the pass stands at ends up: the inner
\* catch, the outer catch, or the caller of syncClientes.
Unwind(p, e) ==
  IF pass[p].pc \in InnerTryPcs THEN Caught(p, e)
  ELSE IF pass[p].pc \in OuterTryPcs THEN OuterCatch(p)
  ELSE [pass[p] EXCEPT !.pc = "rejected"]

\* The collaborator the pass is waiting for fails.
AwaitRejects(p) ==
  /\ pass[p].pc \in AwaitPcs
  /\ \E e \in Errors : Set(p, Unwind(p, e))
  /\ UNCHANGED <<dbVars, envVars, procVars>>

FaultNext == Next \/ \E p \in Slots : AwaitRejects(p)
FaultSpec == Init /\ [][FaultNext]_vars

\* C28: no invocation of syncClientes, at start-up or from the timer, ends
\* with an error thrown or a rejection handed to its caller, whichever await
\* of the pass fails.
C28_NeverRejects == \A p \in Slots : pass[p].pc # "rejected"
\* The pause write failed after a fatal error, in a pass started at start-up
\* and in one started by the timer, and the pass returned.
C28_Witness ==
  \E p \in Slots :
    /\ pass[p].pc = "returned" /\ pass[p].outcome = "error"
    /\ pass[p].err \in {ErrNetName, ErrNetMsg}
    /\ pass[p].trigger # "startup"

\* ====================================== nominatimSearch called on its own
BASE_DELAY_MS == 3000       \* const BASE_DELAY_MS = 3000

\* A loop that sleeps the base delay before the first attempt on a host only.
IterationEntrySleepsOnce(i) == IF i = 0 THEN "sleepBase" ELSE "get"
\* for (let i = 0; i < tries; i++) { console.log(...); await sleep(BASE_DELAY_MS)
IterationEntry(i) == "sleepBase"

\* The unit while nominatimSearch runs:
\*   query   the text searched
\*   host    index into NOMINATIM_HOSTS, att the loop variable i
\*   slept   the sleeps completed since the last request came back (since the
\*           call, before the first request), in order
\*   wait    the back-off the loop is about to sleep
\*   reqs    requests sent by this search
\*   last    the answer to the last request
NominatimSearchCall ==
  /\ unit.pc = "idle"
  /\ \E query \in Enderecos \ {NULL} :
       unit' = [pc |-> IterationEntry(0), fn |-> "nominatimSearch", query |-> query,
                host |-> 1, att |-> 0, slept |-> << >>, wait |-> 0, reqs |-> 0,
                last |-> [kind |-> "none"], result |-> NULL]
  /\ UNCHANGED restVars

\* The next host, or the end of the outer loop: return null
NextHost(u) ==
  IF u.host < Len(NOMINATIM_HOSTS)
  THEN [u EXCEPT !.host = @ + 1, !.att = 0, !.pc = IterationEntry(0)]
  ELSE [u EXCEPT !.pc = "returned", !.result = NULL]

\* await sleep(BASE_DELAY_MS, "rate-limit Nominatim")
NominatimSleepBase ==
  /\ unit.pc = "sleepBase"
  /\ unit' = [unit EXCEPT !.slept = Append(@, BASE_DELAY_MS), !.pc = "get"]
  /\ UNCHANGED restVars

\* const res = await axiosNominatim.get(url), and the branch taken on it
NominatimGet ==
  /\ unit.pc = "get"
  /\ \E r \in PlaceAnswers :
       LET step == NominatimAttempt(r)
           u == [unit EXCEPT !.reqs = @ + 1, !.last = r, !.slept = << >>]
       IN unit' =
            CASE step = "return" -> [u EXCEPT !.pc = "returned", !.result = "res"]
              [] step = "continue" ->
                   [u EXCEPT !.wait = NominatimBackoff(unit.att), !.pc = "backoff"]
              [] OTHER -> NextHost(u)
  /\ UNCHANGED restVars

\* await sleep(backoff, ...); continue
NominatimSleepBackoff ==
  /\ unit.pc = "backoff"
  /\ LET u == [unit EXCEPT !.slept = Append(@, unit.wait), !.wait = 0]
     IN unit' = IF unit.att + 1 < NominatimTries
                THEN [u EXCEPT !.att = @ + 1, !.pc = IterationEntry(unit.att + 1)]
                ELSE NextHost(u)
  /\ UNCHANGED restVars

SearchInit == GeoInit
SearchNext ==
  \/ NominatimSearchCall
  \/ NominatimSleepBase
  \/ NominatimGet
  \/ NominatimSleepBackoff
  \/ UnitReturn
SearchSpec == SearchInit /\ [][SearchNext]_vars

\* C29: whenever nominatimSearch is about to send a request, first attempt
\* or retry, the last thing it did since the previous request of the search
\* came back (since the call, for the first request) was to sleep the base
\* delay.
C29_BaseDelayBeforeRequest ==
  (unit.pc = "get" /\ unit.fn = "nominatimSearch")
    => /\ unit.slept # << >>
       /\ unit.slept[Len(unit.slept)] = BASE_DELAY_MS
\* A retry after a back-off: the back-off was slept, then the base delay.
C29_Witness ==
  /\ unit.pc = "get" /\ unit.fn = "nominatimSearch"
  /\ unit.reqs > 0 /\ unit.att > 0
  /\ unit.slept = <<NominatimBackoff(unit.att - 1), BASE_DELAY_MS>>

\* The cursor read names a CRM id that no entry of the list has, and an entry
\* name that, normalized, is the normalized name of an entry of the list.
C30_IdLostNameKept(list, cursor) ==
  /\ cursor.last_odoo_id # NULL
  /\ \A j \in 1..Len(list) : list[j].partner # cursor.last_odoo_id
  /\ cursor.last_entry_name # NULL
  /\ \E j \in 1..Len(list) : norm(list[j].entry.name) = norm(cursor.last_entry_name)
C30_NamePos(list, cursor) ==
  CHOOSE j \in 1..Len(list) :
    /\ norm(list[j].entry.name) = norm(cursor.last_entry_name)
    /\ \A k \in 1..(j - 1) : norm(list[k].entry.name) # norm(cursor.last_entry_name)

\* C30: when the cursor's CRM id matches no entry of the matched list but its
\* entry name, normalized, equals the normalized name of an entry, the pass
\* begins at the entry after that one.
C30_NameFallback ==
  [][\A p \in Slots :
       (pass[p].pc = "getSyncCursor" /\ pass'[p].pc = "loop"
          /\ C30_IdLostNameKept(pass[p].itens, sync_state))
         => pass'[p].startIdx = C30_NamePos(pass[p].itens, sync_state)]_vars

\* ============================ processarCliente as syncClientes calls it
\* The fields of a partner that search_read is asked for, by the names the
\* records of CrmRecords give them (numero, bairro, country stand for
\* l10n_br_endereco_numero, l10n_br_endereco_bairro, country_id); state_id is
\* asked for too and holds the name of the region.  Neither state_code nor
\* l10n_br_state_code is among them.
FIELDS == {"id", "street", "numero", "bairro", "city", "zip", "country"}

\* What getCustomersFromSheet hands over for a partner of the CRM: the fields
\* asked for; any other field of the record is undefined.
SearchRead(partner) ==
  [f \in DOMAIN partner |-> IF f \in FIELDS THEN partner[f] ELSE Str0]

\* What geocode returns for an answer of the providers: { lat, lng } or null.
\* The region the postal registry answered (via.data.uf) goes into the text
\* searched and is not returned: the value has no property "normalized".
GeocodeValue(answer) ==
  IF answer.found
  THEN [found |-> TRUE, lat |-> answer.lat, lng |-> answer.lng, uf |-> Str0]
  ELSE NoGeo

\* const ok = await processarCliente(partner, entry), up to the first await
\*   partner   the record of the CRM the argument was read from (history)
\*   answer    what the providers answered to geocode (history)
SyncProcessarCliente ==
  /\ unit.pc = "idle"
  /\ \E partner \in CrmRecords :
       \E equipment \in EquipmentTextsOf(partner) :
         LET c == SearchRead(partner)
             enderecoCompleto == buildEnderecoCompleto(EnderecoOf(c))
         IN unit' = [pc |-> IF enderecoCompleto # NoAddress THEN "geocode" ELSE "upsert",
                     fn |-> "processarCliente", c |-> c, equipment |-> equipment,
                     enderecoCompleto |-> enderecoCompleto, geoCalled |-> FALSE,
                     geo |-> NoGeo, clienteId |-> 0, parts |-> << >>, part |-> 0,
                     ok |-> FALSE, rowBefore |-> {r \in clientes : r.id_odoo = c.id},
                     before |-> ItemsOf(equipamentos, SelectClienteId(clientes, c.id)),
                     partner |-> partner, answer |-> NoGeo]
  /\ UNCHANGED restVars

\* const geo = enderecoCompleto ? await geocode(enderecoCompleto, normalizeCep(cep)) : null
SyncGeocode ==
  /\ unit.pc = "geocode"
  /\ \E answer \in ResolverAnswers :
       unit' = [unit EXCEPT !.answer = answer, !.geo = GeocodeValue(answer),
                            !.geoCalled = TRUE, !.pc = "upsert"]
  /\ UNCHANGED restVars

PipeInit == ProcInit
PipeNext ==
  \/ SyncProcessarCliente
  \/ SyncGeocode
  \/ ProcUpsert
  \/ ProcEquipSelect
  \/ ProcEquipDelete
  \/ ProcEquipInsert
  \/ ProcThrows
  \/ UnitReturn
PipeSpec == PipeInit /\ [][PipeNext]_vars

\* The region code to persist: the CRM record's own when valid, otherwise the
\* one the resolver answered when valid, otherwise null.
C31_Region(partner, answer) ==
  IF cleanUF(partner.state_code) # Str0 THEN cleanUF(partner.state_code)
  ELSE cleanUF(answer.uf)

\* C31: when processarCliente has succeeded for a partner, the region of the
\* customer's row is the CRM record's own region code when it is valid,
\* otherwise the valid region code the resolver answered, otherwise null.
C31_RegionPersisted ==
  (unit.pc = "returned" /\ unit.fn = "processarCliente" /\ unit.ok)
    => \A r \in clientes :
         r.id_odoo = unit.c.id => r.estado = C31_Region(unit.partner, unit.answer)

\* processarCliente has succeeded for a partner that had a row before the call.
C32_Overwrote ==
  /\ unit.pc = "returned" /\ unit.fn = "processarCliente" /\ unit.ok
  /\ unit.rowBefore # {}

\* C32: after a successful processarCliente for a CRM id that had a row, the
\* row holds the address, region, postal code and built address of this call
\* and the coordinates geocode returned to this call, null when it returned
\* null, whatever the row held before.
C32_FullOverwrite ==
  C32_Overwrote =>
    \A r \in clientes :
      r.id_odoo = unit.c.id =>
        /\ r.logradouro = unit.c.street
        /\ r.cep = normalizeCep(unit.c.zip)
        /\ r.endereco_completo = unit.enderecoCompleto
        /\ r.estado = estadoSiglaFinal(unit.c, unit.geo)
        /\ r.latitude = (IF unit.geo.found /\ unit.geo.lat # 0 THEN <<unit.geo.lat>> ELSE << >>)
        /\ r.longitude = (IF unit.geo.found /\ unit.geo.lng # 0 THEN <<unit.geo.lng>> ELSE << >>)
\* The row held coordinates, geocode was called and returned null, and the
\* row has none now.
C32_Witness ==
  /\ C32_Overwrote
  /\ unit.geoCalled /\ ~unit.geo.found
  /\ \E old \in unit.rowBefore : old.latitude # << >> /\ old.longitude # << >>
  /\ \E r \in clientes :
       r.id_odoo = unit.c.id /\ r.latitude = << >> /\ r.longitude = << >>

\* Pass p stands at an entry of the list for which findMatchingPartner
\* returned null.
C33_AtUnmatched(p) ==
  /\ pass[p].pc = "loop"
  /\ pass[p].i < Len(pass[p].itens)
  /\ Item(p).partner = NULL

\* C33: the step a pass takes at an entry without a partner writes nothing to
\* sync_state, clientes or equipamentos, starts no processarCliente (and with
\* it no geocode call) and leaves the pass at the head of the loop on the
\* next entry; and no entry without a partner is ever processed.
C33_SkipWithoutEffect ==
  [][\A p \in Slots :
       /\ (C33_AtUnmatched(p) /\ booted' /\ pass'[p].i # pass[p].i)
            => /\ UNCHANGED dbVars
               /\ pass'[p].pc = "loop"
               /\ pass'[p].i = pass[p].i + 1
               /\ pass'[p].processed = pass[p].processed
               /\ pass'[p].itens = pass[p].itens
       /\ (C33_AtUnmatched(p) /\ booted')
            => (pass'[p].pc = "loop" /\ pass'[p].i \in {pass[p].i, pass[p].i + 1})
       /\ \A j \in pass'[p].processed : pass'[p].itens[j + 1].partner # NULL]_vars
\* An unmatched entry has been stepped over and the entry after it is being
\* processed.
C33_Witness ==
  \E p \in Slots :
    /\ pass[p].i >= 1 /\ pass[p].i < Len(pass[p].itens)
    /\ pass[p].itens[pass[p].i].partner = NULL
    /\ pass[p].i \in pass[p].processed
    /\ pass[p].startIdx < pass[p].i

\* The name findMatchingPartner compares for a partner.
C34_Name(p) == normalizeNameLocal(PartnerLabel(p))
\* The partner's name and a candidate contain one another (an empty name
\* matches nothing).
C34_Contains(p, cands) ==
  /\ C34_Name(p) # Str0
  /\ \E c \in cands : strIncludes(C34_Name(p), c) \/ strIncludes(c, C34_Name(p))
C34_NoExact(partners, cands) ==
  \A j \in 1..Len(partners) : C34_Name(partners[j]) \notin cands

\* C34: when the name of no partner equals a candidate, findMatchingPartner
\* returns a partner that matches by containment and whose name is at least
\* as long as that of every other partner matching by containment; it
\* returns null exactly when no partner matches by containment.
C34_LongestContainment ==
  (unit.pc = "returned" /\ unit.fn = "findMatchingPartner") =>
    LET cands == Members(Candidates(unit.requestedName))
        matching == {j \in 1..Len(unit.partners) : C34_Contains(unit.partners[j], cands)}
    IN C34_NoExact(unit.partners, cands) =>
         /\ (matching = {}) <=> (unit.result = NoPartner)
         /\ matching # {} =>
              \E j \in matching :
                /\ unit.result = unit.partners[j]
                /\ \A k \in matching :
                     Len(C34_Name(unit.partners[j])) >= Len(C34_Name(unit.partners[k]))
\* Two partners match by containment, none exactly, and the longer name, the
\* second of the list, was returned.
C34_Witness ==
  /\ unit.pc = "returned" /\ unit.fn = "findMatchingPartner"
  /\ Len(unit.partners) = 2
  /\ LET cands == Members(Candidates(unit.requestedName))
     IN /\ C34_NoExact(unit.partners, cands)
        /\ C34_Contains(unit.partners[1], cands)
        /\ C34_Contains(unit.partners[2], cands)
        /\ Len(C34_Name(unit.partners[2])) > Len(C34_Name(unit.partners[1]))
        /\ unit.result = unit.partners[2]

\* Position of the first comma of a text that has one.
C35_FirstComma(s) ==
  CHOOSE j \in 1..Len(s) : s[j] = "," /\ \A k \in 1..(j - 1) : s[k] # ","
\* The candidates the claim lists for a name: the whole text and, when it has
\* a comma, what stands before the first comma and what stands after it,
\* trimmed, the empty ones left out.
C35_Expected(original) ==
  LET raw == strTrim(original)
      at == C35_FirstComma(raw)
  IN IF raw = Str0 THEN {}
     ELSE IF strIncludes(raw, <<",">>)
     THEN {raw, strTrim(SubSeq(raw, 1, at - 1)),
           strTrim(SubSeq(raw, at + 1, Len(raw)))} \ {Str0}
     ELSE {raw}

\* C35: the candidates nameCandidatesLocal returns are the whole name and, for
\* a name with a comma, the text before the first comma and the text after
\* the first comma, and no others.
C35_CandidatesAtFirstComma ==
  (unit.pc = "returned" /\ unit.fn = "nameCandidatesLocal")
    => Members(unit.result) = C35_Expected(unit.original)

\* ================================================ passes that are resumed
\* The passes of Spec with their history kept: which entries processarCliente
\* was called for and where a pass halted, over every restart.
envButHist == <<roster, GOOGLE_KEY, call, unit>>

\* const ok = await processarCliente(partner, entry), noted in the history
ResumeLoopProcess(p) ==
  /\ LoopProcessPass(p)
  /\ hist' = [hist EXCEPT !.invoked = @ \cup {pass[p].i}]
  /\ UNCHANGED <<dbVars, envButHist, procVars>>

\* await setPause(code || msg); interrupted = true; break, noted in the history
ResumeSetPause(p) ==
  /\ SetPausePass(p)
  /\ hist' = [hist EXCEPT !.halted = @ \cup {pass[p].i}]
  /\ UNCHANGED <<clientes, equipamentos, envButHist, procVars>>

ResumeStep(p) ==
  \/ ClearPauseStartup(p)
  \/ GetPauseState(p)
  \/ DiffQuery(p)
  \/ ClearPauseElapsed(p)
  \/ GetCustomersFromSheet(p)
  \/ GetCustomersFromSheetThrows(p)
  \/ GetSyncCursor(p)
  \/ LoopEnd(p)
  \/ LoopSkip(p)
  \/ ResumeLoopProcess(p)
  \/ ViaCepGet(p)
  \/ Google(p)
  \/ NominatimSearch(p)
  \/ FindMatches(p)
  \/ Upsert(p)
  \/ EquipSelect(p)
  \/ EquipDelete(p)
  \/ EquipInsert(p)
  \/ SetSyncCursor(p)
  \/ ProcessarClienteThrows(p)
  \/ SetSyncCursorThrows(p)
  \/ ResumeSetPause(p)
  \/ Return(p)

\* No two entries of the roster match the same partner.
DistinctPartners(names) ==
  \A j, k \in 1..Len(names) :
    (j # k /\ findMatchingPartner(names[j]) # NULL)
      => findMatchingPartner(names[j]) # findMatchingPartner(names[k])

\* The first start finds no cursor and no pause, and a roster whose entries
\* match distinct partners.
ResumeInit ==
  /\ Init
  /\ sync_state = EmptySyncState
  /\ DistinctPartners(roster)
ResumeNext ==
  \/ StartupSync
  \/ TimerSync
  \/ Restart
  \/ Tick
  \/ \E p \in Slots : ResumeStep(p)
ResumeSpec == ResumeInit /\ [][ResumeNext]_vars

\* C36: with no cursor at the first start and a roster whose entries match
\* distinct partners, when a pass has halted on a fatal error at some entry
\* and a later pass has run to its end, processarCliente has been called at
\* least once for every matched entry of the roster.
C36_EveryMatchedEntryInvoked ==
  \A p \in Slots :
    (pass[p].pc = "returned" /\ pass[p].outcome = "completed" /\ hist.halted # {})
      => Matched(p) \subseteq hist.invoked
\* A pass halted at entry 1 with the cursor on entry 0; the pass that resumed
\* at entry 1 has run to its end.
C36_Witness ==
  \E p \in Slots :
    /\ pass[p].pc = "returned" /\ pass[p].outcome = "completed"
    /\ hist.halted = {1}
    /\ pass[p].startIdx = 1
    /\ pass[p].processed = {1}
    /\ hist.invoked = {0, 1}

\* ==================================== overlapping passes and the cursor
\* The timer of server.js over a roster with two matched entries.
RaceRosters == {<<"a", "b">>}
RaceInit ==
  Init /\ roster \in RaceRosters /\ GOOGLE_KEY /\ sync_state = EmptySyncState
\* The steps of a pass while no query and no CRM or roster read fails and no
\* pause is recorded: the steps that handle such a failure are never reached.
RaceStep(p) ==
  \/ ClearPauseStartup(p)
  \/ GetPauseState(p)
  \/ GetCustomersFromSheet(p)
  \/ GetSyncCursor(p)
  \/ LoopEnd(p)
  \/ LoopProcess(p)
  \/ ViaCepGet(p)
  \/ Google(p)
  \/ NominatimSearch(p)
  \/ FindMatches(p)
  \/ Upsert(p)
  \/ EquipSelect(p)
  \/ EquipDelete(p)
  \/ EquipInsert(p)
  \/ SetSyncCursor(p)
  \/ Return(p)
RaceNext == StartupSync \/ TimerFires \/ \E p \in Slots : RaceStep(p)
RaceSpec == RaceInit /\ [][RaceNext]_vars

\* Index in the roster of the entry the cursor records, -1 for no entry.
C37_CursorIndex(cursor) ==
  IF \E j \in 1..Len(roster) : roster[j] = cursor.last_entry_name
  THEN (CHOOSE j \in 1..Len(roster) : roster[j] = cursor.last_entry_name) - 1
  ELSE 0 - 1

\* C37: while the process lives, no step lowers the roster index of the entry
\* the cursor records, however the start-up pass and the timer's passes
\* interleave.
C37_CursorNeverDecreases ==
  [][booted' => C37_CursorIndex(sync_state') >= C37_CursorIndex(sync_state)]_vars

\* ------------------------------------------------------------------- C38
\* C38: the not-found report and the driver agree: for every name of the
\* spreadsheet and the customers getCustomersFromSheet returned, the name is
\* listed in notFound exactly when findMatchingPartner returns null for it.
C38_ReportAgreesWithDriver ==
  (unit.pc = "returned" /\ unit.fn = "getCustomersFromSheet")
    => \A j \in 1..Len(unit.requested) :
         (unit.requested[j] \in Members(unit.notFound))
           <=> (FindMatchingPartner(unit.requested[j], unit.customers) = NoPartner)

\* ------------------------------------------------------------------- C39
\* The process of LiveSpec, and geocode called on its own before the process
\* makes its first pass over a database that holds no cursor and no pause:
\* every request is answered with a status or fails, and every await settles.
TermGeoStep == GeoViaCepGet \/ GeoGoogle \/ GeoNominatimSearch \/ GeocodeReturn
TermGeocodeCall == ~booted /\ sync_state = EmptySyncState /\ GeocodeCall
TermStartupSync == call.pc = "idle" /\ StartupSync
TermInit == LiveInit
TermNext ==
  \/ TermGeocodeCall
  \/ TermGeoStep
  \/ TermStartupSync
  \/ TimerSync
  \/ Tick
  \/ \E p \in Slots : Step(p)
TermSpec ==
  /\ TermInit
  /\ [][TermNext]_vars
  /\ WF_vars(TermGeoStep)
  /\ WF_vars(TermStartupSync)
  /\ WF_vars(TimerSync)
  /\ WF_vars(Tick)
  /\ \A p \in Slots : WF_vars(Step(p))

\* The requests one call of nominatimSearch and one call of viaCepGet may send.
C39_NominatimCap == Len(NOMINATIM_HOSTS) * NominatimTries
C39_Bounded ==
  /\ call.sent.via <= C39_NominatimCap
  /\ call.sent.raw <= C39_NominatimCap
  /\ call.sent.viacep <= ViaCepTries

\* C39: a call of nominatimSearch sends at most (hosts x attempt cap)
\* requests and a call of viaCepGet at most its attempt cap, whatever the
\* providers answer; every call of geocode returns, and every pass of
\* syncClientes that has started returns.
C39_SearchesAndPassesEnd ==
  /\ []C39_Bounded
  /\ (call.pc # "idle") ~> (call.pc = "returned")
  /\ \A p \in Slots : (pass[p].pc # "idle") ~> (pass[p].pc = "idle")

\* C39 witness: a call of geocode has sent the registry its attempt cap of
\* requests and the search on the raw address every request the hosts allow,
\* and has returned.
C39_Witness ==
  /\ call.pc = "returned"
  /\ call.sent.viacep = ViaCepTries
  /\ call.sent.raw = C39_NominatimCap

\* ------------------------------------------------------------------- C40
\* setSyncCursor, setPause and clearPause called on their own, on whatever
\* row 1 holds.
CursorIds == {NULL, "101", "102"}
CursorNames == {NULL, "a", "b"}
PauseReasons == {NULL} \cup {PauseReason(e) : e \in Errors}
rowRest == <<clientes, equipamentos, roster, clearedPauseOnStartup, booted,
             lastOutcome, pass, hist, GOOGLE_KEY, call>>

\* await setSyncCursor({ last_odoo_id, last_entry_name })
SetSyncCursorCall ==
  /\ unit.pc = "idle"
  /\ \E id \in CursorIds, name \in CursorNames :
       sync_state' = setSyncCursor(sync_state, id, name)
  /\ unit' = [pc |-> "returned", fn |-> "setSyncCursor", before |-> sync_state]
  /\ UNCHANGED rowRest

\* await setPause(reason)
SetPauseCall ==
  /\ unit.pc = "idle"
  /\ \E reason \in PauseReasons : sync_state' = setPause(sync_state, reason)
  /\ unit' = [pc |-> "returned", fn |-> "setPause", before |-> sync_state]
  /\ UNCHANGED rowRest

\* await clearPause()
ClearPauseCall ==
  /\ unit.pc = "idle"
  /\ sync_state' = clearPause(sync_state)
  /\ unit' = [pc |-> "returned", fn |-> "clearPause", before |-> sync_state]
  /\ UNCHANGED rowRest

RowInit ==
  /\ \E c \in InitCursors, ps \in InitPauses :
       sync_state = [last_odoo_id |-> c[1], last_entry_name |-> c[2],
                     paused_since |-> ps[1], paused_reason |-> ps[2]]
  /\ clientes = {}
  /\ equipamentos = {}
  /\ roster = << >>
  /\ GOOGLE_KEY = FALSE
  /\ clearedPauseOnStartup = FALSE
  /\ booted = FALSE
  /\ lastOutcome = "none"
  /\ pass = [p \in Slots |-> IdlePass]
  /\ call = IdleCall
  /\ unit = IdleUnit
  /\ hist = NoHist
RowNext == SetSyncCursorCall \/ SetPauseCall \/ ClearPauseCall \/ UnitReturn
RowSpec == RowInit /\ [][RowNext]_vars

\* C40: the cursor and the pause share row 1 but are written independently:
\* setSyncCursor leaves paused_since and paused_reason as they were, and
\* setPause and clearPause leave last_odoo_id and last_entry_name as they were.
C40_IndependentWrites ==
  unit.pc = "returned" =>
    /\ unit.fn = "setSyncCursor" =>
         /\ sync_state.paused_since = unit.before.paused_since
         /\ sync_state.paused_reason = unit.before.paused_reason
    /\ unit.fn \in {"setPause", "clearPause"} =>
         /\ sync_state.last_odoo_id = unit.before.last_odoo_id
         /\ sync_state.last_entry_name = unit.before.last_entry_name

\* C40 witness: setSyncCursor has replaced the cursor of a row that held a
\* pause.
C40_Witness ==
  /\ unit.pc = "returned"
  /\ unit.fn = "setSyncCursor"
  /\ unit.before.paused_since # NoTime
  /\ unit.before.paused_reason # NULL
  /\ sync_state.last_odoo_id # unit.before.last_odoo_id
====
